---- MODULE Spec2Model ----
(***************************************************************************)
(* Interactive Shadower: the mask stabiliser (temporal vote, morphological *)
(* closing), the segmentation oracle's life cycle and the mode controller  *)
(* of the FaceReactiveDots component, as state machines.                   *)
(*                                                                         *)
(* A mask (Uint8Array) is a sequence of 0/1 cells; the code's index        *)
(* idx(x, y) = y * w + x is position idx + 1 of the sequence.              *)
(***************************************************************************)
EXTENDS Integers, Sequences, FiniteSets, TLC

VARIABLES
    voteCall,     \* one call of temporalSmooth: its arguments and result
    closeCall,    \* morphologicalClose applied once and twice to a mask
    paintCall,    \* the painting of one dot in a render tick
    composeCall,  \* the composition of a background, unmirrored and mirrored
    fadeCall,     \* the fade opacity of one tick and of the next longer one
    feedCall,     \* a run of oracle results through the listener's mask update
    \* the component (refs and React state)
    mounted,              \* the component is mounted (effects not yet cleaned up)
    maskHistoryRef,       \* Uint8Array[]: the raw masks retained
    smoothedMaskRef,      \* Uint8Array | null
    lastSegmentationRef,  \* {width, height, data} | null
    segmentationTaskRef,  \* the registered oracle instance | null
    isProcessingFrameRef, \* the in-flight guard of segmentVideo
    frameCountRef,        \* the tick counter, kept modulo 2 (it is only read % 2)
    isModelReady,
    isActive,
    cancelled,            \* the oracle effect's closure flag (mounted = ~cancelled)
    loadPc,               \* where the oracle effect's async loader stands
    afterReject,          \* "rejected": a send() has rejected and the catch has
                          \* logged "segment error"; "ticked": and a tick ran
                          \* since; "no" otherwise
    \* the oracle instance (external)
    inFlight,             \* send() calls not yet settled
    closeCalls,           \* how many times close() was invoked on the instance
    \* the mode controller
    mode,                 \* GREEN_DOTS | IMAGE_REVEAL | VIDEO_REVEAL
    currentMediaIndexRef, \* the selection cursor, -1 when unset
    imageRef,             \* the image the compositor draws | null
    imageLoaded,
    bgVideoReady,
    bgVideo,              \* the hidden <video>: its src and whether it plays
    scans,                \* cycleMode calls awaiting scanMediaDirectory()
    imageLoads,           \* per image: Image objects whose onload is pending
    onCanListeners,       \* once-listeners for canplaythrough on the <video>
    selectedName,         \* the selection last logged by cycleMode
    mediaDir,             \* the media files /api/scan-media lists at present
    files,                \* `files` of the cycleMode call that completed last
    selectionLoading,     \* the source cycleMode selected last is an image
                          \* not yet loaded or a video not yet ready to play
    cycleLog,             \* the cursors the completed cycle requests set,
                          \* since the last return to Green Dots or change
                          \* of the listing
    \* the dot grid
    window,               \* window.innerWidth, window.innerHeight
    canvas,               \* canvas.width, canvas.height
    dotModeIndex,
    renderedDotMode,      \* the dotModeIndex the callbacks in effect closed over
    dotsRef,              \* Dot[]
    \* the animation frames
    animationRef,         \* the id requestAnimationFrame returned last | 0
    rafQueue,             \* ids of the frame callbacks requested and neither
                          \* run nor cancelled
    effectDeps,           \* the dependencies the animation effect last ran with
    hasCleanup,           \* that run returned a cleanup
    \* the mirror
    isMirrored,
    selfieMode,           \* the option set on the oracle instance | null
    \* the trail
    now,                  \* performance.now(), in steps of TimeStep ms
    lastFrameTimeRef,     \* the timestamp the last tick took
    ghostlyEnabled,
    \* observation
    shifted,              \* maskHistoryRef.current.shift() has run at least once
    tickRead,             \* what the last render tick read of the mask
    tickBg,               \* the bgSource the last render tick composited | null
    tickDraw,             \* the last render tick's delta and its canvas calls,
                          \* in order | null before the first tick
    afterNoMask           \* "cleared": the listener's last result that changed
                          \* the refs had no mask; "ticked": and a tick ran
                          \* since; "no" otherwise

pureVars == <<voteCall, closeCall, paintCall, composeCall, fadeCall, feedCall>>
fadeVars == <<now, lastFrameTimeRef, ghostlyEnabled>>
rafVars == <<animationRef, rafQueue, effectDeps, hasCleanup>>
mirrorVars == <<isMirrored, selfieMode>>
gridVars == <<window, canvas, dotModeIndex, renderedDotMode, dotsRef>>
maskVars == <<maskHistoryRef, smoothedMaskRef, lastSegmentationRef, shifted>>
oracleVars == <<segmentationTaskRef, isModelReady, cancelled, loadPc, closeCalls>>
sendVars == <<isProcessingFrameRef, inFlight>>
logVars == <<afterReject, afterNoMask>>
modeVars == <<mode, currentMediaIndexRef, imageRef, imageLoaded, bgVideoReady,
              bgVideo, scans, imageLoads, onCanListeners, selectedName,
              mediaDir, files, cycleLog, selectionLoading>>
compVars == <<mounted, maskHistoryRef, smoothedMaskRef, lastSegmentationRef,
              segmentationTaskRef, isProcessingFrameRef, frameCountRef,
              isModelReady, isActive, cancelled, loadPc, inFlight, closeCalls,
              shifted, tickRead, tickBg, tickDraw, afterNoMask, afterReject,
              now,
              lastFrameTimeRef,
              ghostlyEnabled, window, canvas, dotModeIndex,
              renderedDotMode, dotsRef, mode, currentMediaIndexRef, imageRef,
              imageLoaded, bgVideoReady, bgVideo, scans, imageLoads,
              onCanListeners, selectedName, mediaDir, files, cycleLog,
              selectionLoading, animationRef, rafQueue, effectDeps,
              hasCleanup, isMirrored, selfieMode>>
vars == <<voteCall, closeCall, paintCall, composeCall, fadeCall, feedCall,
          now, lastFrameTimeRef, ghostlyEnabled, tickDraw, afterNoMask,
          afterReject, window, canvas,
          dotModeIndex, renderedDotMode, dotsRef, mounted, maskHistoryRef,
          smoothedMaskRef, lastSegmentationRef, segmentationTaskRef,
          isProcessingFrameRef, frameCountRef, isModelReady, isActive,
          cancelled, loadPc, inFlight, closeCalls, shifted, tickRead, tickBg,
          mode, currentMediaIndexRef, imageRef, imageLoaded, bgVideoReady,
          bgVideo, scans, imageLoads, onCanListeners, selectedName, mediaDir,
          files, cycleLog, selectionLoading, animationRef, rafQueue,
          effectDeps, hasCleanup, isMirrored, selfieMode>>

(***************************************************************************)
(* Bounds of the model.                                                    *)
(***************************************************************************)
Unit == 10000      \* opacity 1, in ten-thousandths
MaxDelta == 60     \* longest elapsed time given to the fade, in 100 ms steps
MaxFeed == 6       \* results delivered in one run of the listener
MaxTime == 3       \* latest reading of performance.now(), in 100 ms steps
MaxFrames == 2      \* most frame callbacks requested at a time
MaxFull == 1        \* results delivered while the modes are cycled
MaxLen == 2        \* cells per mask in a call of temporalSmooth
MaxW == 4          \* widest grid given to morphologicalClose
MaxH == 3          \* tallest grid given to morphologicalClose
MaxCells == 12     \* most cells of a grid given to morphologicalClose
SegW == 4          \* width of the widest mask the oracle delivers
SegH == 3          \* height of the masks the oracle delivers
MaxInFlight == 2   \* most unsettled send() calls the unguarded component piles up
MaxPendingScans == 2   \* most cycleMode calls awaiting their media scan
MaxPendingLoads == 2   \* most Image objects of one file awaiting onload
MaxListeners == 2   \* most once-listeners waiting on the <video>
MaxLog == 5   \* most cursors kept in cycleLog
WinW == 24    \* widest window
WinH == 25    \* tallest window
PaintW == 4   \* canvas width when one dot is painted
PaintH == 3   \* canvas height when one dot is painted
SrcW == 3     \* widest background source composited
SrcH == 2     \* tallest background source composited
CanvW == 3    \* widest canvas a background is composited on
CanvH == 3    \* tallest canvas a background is composited on

(***************************************************************************)
(* Program constants.                                                      *)
(***************************************************************************)
HistoryCap == 4        \* maskHistoryRef keeps at most 4 raw masks
VoteRatioNum == 3      \* voteRatio = 0.75 = 3 / 4
VoteRatioDen == 4
KernelSize == 1        \* kernelSize of the 3x3 structuring element
FrameModulus == 2      \* frameCountRef.current % 2
DecayPerStep == 7165   \* Math.exp(-100 / 300), in ten-thousandths
CreationTime == 1      \* performance.now() when the component is created

Bit == {0, 1}

(***************************************************************************)
(* temporalSmooth                                                          *)
(***************************************************************************)
\* masks[k][i] is undefined when mask k has no cell i: the sum becomes NaN.
CellDefined(masks, i) == \A k \in 1..Len(masks) : i <= Len(masks[k])

RECURSIVE CellSum(_, _, _)
CellSum(masks, i, k) ==
    IF k = 0 THEN 0 ELSE CellSum(masks, i, k - 1) + masks[k][i]

\* Math.ceil(masks.length * voteRatio)
\* A mutant of the threshold: every entry must agree.
NeededAll(n) == n

Needed(n) == (n * VoteRatioNum + VoteRatioDen - 1) \div VoteRatioDen

\* A mutant of the vote: a strict comparison.
temporalSmoothStrict(masks, length) ==
    IF Len(masks) = 0 THEN [i \in 1..length |-> 0]
    ELSE [i \in 1..length |->
            IF CellDefined(masks, i)
               /\ CellSum(masks, i, Len(masks)) > Needed(Len(masks))
            THEN 1 ELSE 0]

\* A mutant of the vote: the sum must match the threshold exactly.
temporalSmoothExact(masks, length) ==
    IF Len(masks) = 0 THEN [i \in 1..length |-> 0]
    ELSE [i \in 1..length |->
            IF CellDefined(masks, i)
               /\ CellSum(masks, i, Len(masks)) = Needed(Len(masks))
            THEN 1 ELSE 0]

temporalSmooth(masks, length) ==
    IF Len(masks) = 0 THEN [i \in 1..length |-> 0]
    ELSE [i \in 1..length |->
            \* NaN >= needed is false
            IF CellDefined(masks, i)
               /\ CellSum(masks, i, Len(masks)) >= Needed(Len(masks))
            THEN 1 ELSE 0]

(***************************************************************************)
(* dilate, erode, morphologicalClose                                       *)
(***************************************************************************)
Idx(x, y, w) == y * w + x + 1

InGrid(x, y, w, h) == x >= 0 /\ y >= 0 /\ x < w /\ y < h

Kernel(k) == (0 - k)..k

\* src[idx(x, y)], read as 0 when the array has no such cell
Cell(src, x, y, w) ==
    IF Idx(x, y, w) <= Len(src) THEN src[Idx(x, y, w)] ELSE 0

\* A mutant of dilate: a plus-shaped (4-neighbour) structuring element.
dilatePlus(src, w, h, kernelSize) ==
    [p \in 1..Len(src) |->
        LET x == (p - 1) % w
            y == (p - 1) \div w
        IN  IF /\ InGrid(x, y, w, h)
               /\ \E dy \in Kernel(kernelSize), dx \in Kernel(kernelSize) :
                     /\ dx = 0 \/ dy = 0
                     /\ InGrid(x - dx, y - dy, w, h)
                     /\ Cell(src, x - dx, y - dy, w) = 1
            THEN 1 ELSE 0]

dilate(src, w, h, kernelSize) ==
    [p \in 1..Len(src) |->
        LET x == (p - 1) % w
            y == (p - 1) \div w
        IN  \* cell (x, y) is written when a set cell lies within the kernel
            IF /\ InGrid(x, y, w, h)
               /\ \E dy \in Kernel(kernelSize), dx \in Kernel(kernelSize) :
                     /\ InGrid(x - dx, y - dy, w, h)
                     /\ Cell(src, x - dx, y - dy, w) = 1
            THEN 1 ELSE 0]

\* A mutant of erode: neighbours off the grid are skipped, not rejected.
erodeClamped(src, w, h, kernelSize) ==
    [p \in 1..Len(src) |->
        LET x == (p - 1) % w
            y == (p - 1) \div w
        IN  IF /\ InGrid(x, y, w, h)
               /\ \A dy \in Kernel(kernelSize), dx \in Kernel(kernelSize) :
                     InGrid(x + dx, y + dy, w, h)
                        => Cell(src, x + dx, y + dy, w) # 0
            THEN 1 ELSE 0]

erode(src, w, h, kernelSize) ==
    [p \in 1..Len(src) |->
        LET x == (p - 1) % w
            y == (p - 1) \div w
        IN  IF /\ InGrid(x, y, w, h)
               /\ \A dy \in Kernel(kernelSize), dx \in Kernel(kernelSize) :
                     /\ InGrid(x + dx, y + dy, w, h)
                     /\ Cell(src, x + dx, y + dy, w) # 0
            THEN 1 ELSE 0]

\* A mutant of morphologicalClose: the two passes in the other order.
morphologicalOpen(src, w, h, kernelSize) ==
    dilate(erode(src, w, h, kernelSize), w, h, kernelSize)

morphologicalClose(src, w, h, kernelSize) ==
    erode(dilate(src, w, h, kernelSize), w, h, kernelSize)

(***************************************************************************)
(* The component with the mask stabiliser (second FaceReactiveDots).       *)
(***************************************************************************)
None == <<>>
Some(v) == <<v>>

\* the pure-function calls, when none is made
IdleVote == [pc |-> "idle", masks |-> <<>>, length |-> 0, out |-> <<>>]
IdleClose == [pc |-> "idle", src |-> <<>>, w |-> 0, h |-> 0,
              once |-> <<>>, twice |-> <<>>]

\* The red channel of the mask image the oracle hands to the listener.
FullImage(w, h) == [p \in 1..(w * h) |-> 255]
\* one bright cell at (1, 1), the rest exactly at the threshold
DotImage(w, h) == [p \in 1..(w * h) |-> IF p = Idx(1, 1, w) THEN 255 ELSE 128]

MaskResult(w, h, red) == [mask |-> TRUE, width |-> w, height |-> h, red |-> red]
NoMaskResult == [mask |-> FALSE]

\* What the oracle may hand to the listener: no mask, a mask of zero width,
\* masks of the full size, and a mask of a narrower size.
Results ==
    {NoMaskResult}
    \cup {MaskResult(0, SegH, <<>>)}
    \cup {MaskResult(SegW, SegH, red) :
             red \in {FullImage(SegW, SegH), DotImage(SegW, SegH)}}
    \cup {MaskResult(SegW - 2, SegH, FullImage(SegW - 2, SegH))}

\* raw[i] = maskImage.data[i * 4] > 128 ? 1 : 0
Threshold(red, flatLen) == [i \in 1..flatLen |-> IF red[i] > 128 THEN 1 ELSE 0]

\* maskHistoryRef.current.push(raw); if (length > 4) shift()
\* A mutant of the eviction: the newest entry is dropped, not the oldest.
PushHistoryPop(history, raw) ==
    LET pushed == Append(history, raw)
    IN  IF Len(pushed) > HistoryCap THEN SubSeq(pushed, 1, Len(pushed) - 1)
        ELSE pushed

PushHistory(history, raw) ==
    LET pushed == Append(history, raw)
    IN  IF Len(pushed) > HistoryCap THEN Tail(pushed) ELSE pushed

\* ---- media files ----
\* what /api/scan-media may list (route.ts keeps jpg, jpeg, png, gif, mp4,
\* webm, mov); a failed scan yields the empty list
FileA == [name |-> "a.png", ext |-> "png"]
FileB == [name |-> "b.jpg", ext |-> "jpg"]
FileV == [name |-> "v.mp4", ext |-> "mp4"]
MediaLists == {<<>>, <<FileA>>, <<FileA, FileB, FileV>>}
InstalledMedia == <<FileA, FileB, FileV>>

\* file.toLowerCase().match(/\.(mp4|webm|mov)$/i) ? "video" : "image"
MediaType(file) == IF file.ext \in {"mp4", "webm", "mov"} THEN "video" ELSE "image"

ImageNames == {f.name : f \in {FileA, FileB}}

\* ---- the dot grid ----
\* DOT_MODES; baseSize is in tenths of a pixel (1, 2, 2.7)
DOT_MODES ==
    << [id |-> "SMALL", spacing |-> 8, baseSize |-> 10],
       [id |-> "MEDIUM", spacing |-> 12, baseSize |-> 20],
       [id |-> "LARGE", spacing |-> 16, baseSize |-> 27] >>

\* DOT_MODES[dotModeIndex], the index counted from 0
currentDotMode(index) == DOT_MODES[index + 1]

\* Math.ceil(a / b) for a >= 0, b > 0
Ceil(a, b) == (a + b - 1) \div b

\* a mutant of initializeDots: Math.floor in place of Math.ceil
initializeDotsFloor(cnv, dotMode) ==
    LET spacing == dotMode.spacing
        cols == cnv.width \div spacing
        rows == cnv.height \div spacing
    IN  [k \in 1..(cols * rows) |->
            LET x == ((k - 1) \div rows) * spacing
                y == ((k - 1) % rows) * spacing
            IN  [x |-> x, y |-> y, baseX |-> x, baseY |-> y,
                 size |-> dotMode.baseSize, baseSize |-> dotMode.baseSize,
                 active |-> FALSE]]

\* a mutant of initializeDots: the loops run to `<= cols`, `<= rows`
initializeDotsInclusive(cnv, dotMode) ==
    LET spacing == dotMode.spacing
        cols == Ceil(cnv.width, spacing) + 1
        rows == Ceil(cnv.height, spacing) + 1
    IN  [k \in 1..(cols * rows) |->
            LET x == ((k - 1) \div rows) * spacing
                y == ((k - 1) % rows) * spacing
            IN  [x |-> x, y |-> y, baseX |-> x, baseY |-> y,
                 size |-> dotMode.baseSize, baseSize |-> dotMode.baseSize,
                 active |-> FALSE]]

\* initializeDots: columns outside, rows inside
initializeDots(cnv, dotMode) ==
    LET spacing == dotMode.spacing
        cols == Ceil(cnv.width, spacing)
        rows == Ceil(cnv.height, spacing)
    IN  [k \in 1..(cols * rows) |->
            LET x == ((k - 1) \div rows) * spacing
                y == ((k - 1) % rows) * spacing
            IN  [x |-> x, y |-> y, baseX |-> x, baseY |-> y,
                 size |-> dotMode.baseSize, baseSize |-> dotMode.baseSize,
                 active |-> FALSE]]

\* ---- one dot in a render tick ----
\* a mutant of the mapping: the scale factor is inverted
MaskCoordInverted(base, segSize, canvasSize) == (base * canvasSize) \div segSize

\* Math.floor(dot.baseX * scaleX), scaleX = segmentation.width / canvas.width
\* (exact arithmetic)
MaskCoord(base, segSize, canvasSize) == (base * segSize) \div canvasSize

\* isDotActive of the second component: maskData is Uint8Array | null,
\* segmentation is {width, height, data} | null
isDotActive(dot, maskData, segmentation, cnv) ==
    IF /\ maskData # None
       /\ segmentation # None
       /\ segmentation[1].width # 0
       /\ segmentation[1].height # 0
    THEN LET w == segmentation[1].width
             h == segmentation[1].height
             mx == MaskCoord(dot.baseX, w, cnv.width)
             my == MaskCoord(dot.baseY, h, cnv.height)
             idx == my * w + mx
         IN  IF mx >= 0 /\ my >= 0 /\ mx < w /\ my < h
             THEN idx + 1 \in DOMAIN maskData[1] /\ maskData[1][idx + 1] = 1
             ELSE FALSE
    ELSE FALSE

\* `active` of the first component: the red channel of the raw mask, > 128
isDotActiveA(dot, segmentation, cnv) ==
    IF segmentation # None
    THEN LET w == segmentation[1].width
             h == segmentation[1].height
             mx == MaskCoord(dot.baseX, w, cnv.width)
             my == MaskCoord(dot.baseY, h, cnv.height)
             idx == my * w + mx
         IN  IF mx >= 0 /\ my >= 0 /\ mx < w /\ my < h
             THEN /\ idx + 1 \in DOMAIN segmentation[1].data
                  /\ segmentation[1].data[idx + 1] > 128
             ELSE FALSE
    ELSE FALSE

GreenHue == <<"hsl(120,90%,70%)">>
White == <<"#fff">>
Black == <<"#000">>

\* data[pidx] || 0 ... : the pixel of the composited buffer under the dot;
\* `data` is the buffer as pixels <<r, g, b>>, row by row
Sampled(data, dot, cnv) ==
    LET pidx == dot.baseY * cnv.width + dot.baseX
    IN  IF pidx + 1 \in DOMAIN data
        THEN <<"rgb", data[pidx + 1][1], data[pidx + 1][2], data[pidx + 1][3]>>
        ELSE <<"rgb", 0, 0, 0>>

\* `fill` of an active dot; bgData is the composited buffer | null
activeFill(dotMode, bgData, dot, cnv) ==
    IF dotMode = "GREEN_DOTS"
    THEN GreenHue
    ELSE IF bgData # None
         THEN Sampled(bgData[1], dot, cnv)
         ELSE White

\* a mutant of the loop body: an inactive dot is painted as large as an
\* active one
paintDotOneSize(dot, isActiveNow, dotMode, bgData, cnv) ==
    IF isActiveNow
    THEN [active |-> TRUE, radius |-> dot.baseSize * 15,
          fill |-> activeFill(dotMode, bgData, dot, cnv)]
    ELSE [active |-> FALSE, radius |-> dot.baseSize * 15, fill |-> Black]

\* the body of dotsRef.current.forEach: what is painted for the dot; radii
\* are in hundredths of a pixel (baseSize * 1.5, baseSize * 0.5)
paintDot(dot, isActiveNow, dotMode, bgData, cnv) ==
    IF isActiveNow
    THEN [active |-> TRUE, radius |-> dot.baseSize * 15,
          fill |-> activeFill(dotMode, bgData, dot, cnv)]
    ELSE [active |-> FALSE, radius |-> dot.baseSize * 5, fill |-> Black]

\* ---- the background composition ----
\* JavaScript numbers, kept exact: a fraction num / den in lowest terms,
\* den > 0 (the rounding of floating-point division is not modelled)
RECURSIVE Gcd(_, _)
Gcd(a, b) == IF b = 0 THEN a ELSE Gcd(b, a % b)

Abs(n) == IF n < 0 THEN -n ELSE n

Frac(n, d) ==
    LET sn == IF d < 0 THEN -n ELSE n
        sd == Abs(d)
        g == Gcd(Abs(sn), sd)
    IN  [num |-> sn \div g, den |-> sd \div g]

Num(n) == [num |-> n, den |-> 1]
Plus(a, b) == Frac(a.num * b.den + b.num * a.den, a.den * b.den)
Minus(a, b) == Frac(a.num * b.den - b.num * a.den, a.den * b.den)
Times(a, b) == Frac(a.num * b.num, a.den * b.den)
Over(a, b) == Frac(a.num * b.den, a.den * b.num)
Leq(a, b) == a.num * b.den <= b.num * a.den

\* a mutant of Math.max: the smaller scale (contain-fit)
MathMin(a, b) == IF Leq(a, b) THEN a ELSE b

MathMax(a, b) == IF Leq(a, b) THEN b ELSE a

\* drawWidth, drawHeight, offsetX, offsetY of a tick
coverFit(sourceWidth, sourceHeight, cnv) ==
    IF sourceWidth # 0 /\ sourceHeight # 0
    THEN LET scale == MathMax(Over(Num(cnv.width), Num(sourceWidth)),
                              Over(Num(cnv.height), Num(sourceHeight)))
             drawWidth == Times(Num(sourceWidth), scale)
             drawHeight == Times(Num(sourceHeight), scale)
         IN  [drawWidth |-> drawWidth, drawHeight |-> drawHeight,
              offsetX |-> Over(Minus(Num(cnv.width), drawWidth), Num(2)),
              offsetY |-> Over(Minus(Num(cnv.height), drawHeight), Num(2))]
    ELSE [drawWidth |-> Num(cnv.width), drawHeight |-> Num(cnv.height),
          offsetX |-> Num(0), offsetY |-> Num(0)]

\* a mutant of drawX: the offset is not reflected
drawXNotReflected(fit, mirrored) == fit.offsetX

\* drawX of the mirrored and of the plain draw
drawXOf(fit, mirrored) ==
    IF mirrored
    THEN Minus(Minus(Num(0), fit.offsetX), fit.drawWidth)
    ELSE fit.offsetX

\* the source cells (of n along the axis) whose span holds coordinate t
CellsAt(t, n) ==
    {c \in 0..(n - 1) : Leq(Num(c), t) /\ Leq(t, Num(c + 1))}

\* ic.scale(-1, 1) when mirrored, then ic.drawImage(bgSource, drawX, drawY,
\* drawWidth, drawHeight) and getImageData: the rectangle drawn, in canvas
\* coordinates, and for every canvas pixel the source pixels drawn over its
\* centre (none: the pixel stays transparent)
composite(source, cnv, mirrored) ==
    LET fit == coverFit(source.width, source.height, cnv)
        drawX == drawXOf(fit, mirrored)
        drawY == fit.offsetY
        flip == IF mirrored THEN -1 ELSE 1
        half == Frac(1, 2)
        \* source coordinates of the centre of canvas pixel (px, py)
        tx(px) == Over(Times(Minus(Times(Num(flip), Plus(Num(px), half)), drawX),
                             Num(source.width)), fit.drawWidth)
        ty(py) == Over(Times(Minus(Plus(Num(py), half), drawY),
                             Num(source.height)), fit.drawHeight)
        left == IF mirrored
                THEN Minus(Num(0), Plus(drawX, fit.drawWidth))
                ELSE drawX
    IN  [rect |-> [left |-> left, top |-> drawY, width |-> fit.drawWidth,
                   height |-> fit.drawHeight],
         columns |-> [px \in 0..(cnv.width - 1) |-> CellsAt(tx(px), source.width)],
         data |-> [k \in 1..(cnv.width * cnv.height) |->
                     LET px == (k - 1) % cnv.width
                         py == (k - 1) \div cnv.width
                     IN  {source.pixels[r + 1][c + 1] :
                             c \in CellsAt(tx(px), source.width),
                             r \in CellsAt(ty(py), source.height)}]]

IdlePaint == [pc |-> "idle"]
IdleCompose == [pc |-> "idle"]
IdleFade == [pc |-> "idle"]
IdleFeed == [pc |-> "idle"]

\* the dependency list of the animation effect, as rendered (resizeCanvas
\* changes with the dot preset)
CurrentDeps ==
    <<isActive, isModelReady, bgVideoReady, imageLoaded, mode, dotModeIndex,
      ghostlyEnabled, isMirrored>>

\* a mutant of the browser call: the callback stays requested
cancelAnimationFrameKeeps(queue, id) == queue

\* cancelAnimationFrame(id): the callback, if still requested, will not run
cancelAnimationFrame(queue, id) == queue \ {id}

\* if (animationRef.current) cancelAnimationFrame(animationRef.current)
CancelPending(queue) ==
    IF animationRef # 0 THEN cancelAnimationFrame(queue, animationRef)
    ELSE queue

\* the id requestAnimationFrame returns: one no requested callback has and
\* animationRef does not hold
requestAnimationFrame(queue) ==
    CHOOSE id \in 1..(MaxFrames + 1) : id \notin queue /\ id # animationRef

InitComponent ==
    /\ mounted = TRUE
    /\ maskHistoryRef = <<>>
    /\ smoothedMaskRef = None
    /\ lastSegmentationRef = None
    /\ segmentationTaskRef = "null"
    /\ isProcessingFrameRef = FALSE
    /\ frameCountRef = 0
    /\ isModelReady = FALSE
    /\ isActive = FALSE
    /\ cancelled = FALSE
    /\ loadPc = "import"
    /\ inFlight = 0
    /\ closeCalls = 0
    /\ shifted = FALSE
    /\ tickRead = None
    /\ tickBg = None
    /\ tickDraw = None
    /\ afterNoMask = "no"
    /\ afterReject = "no"
    /\ now = CreationTime
    /\ lastFrameTimeRef = now
    /\ ghostlyEnabled = TRUE
    /\ selectionLoading = FALSE
    /\ window = [width |-> WinW, height |-> WinH]
    /\ canvas = window
    /\ dotModeIndex = 1
    /\ renderedDotMode = 1
    /\ dotsRef = initializeDots(canvas, currentDotMode(1))
    /\ mode = "GREEN_DOTS"
    /\ currentMediaIndexRef = -1
    /\ imageRef = None
    /\ imageLoaded = FALSE
    /\ bgVideoReady = FALSE
    /\ bgVideo = [src |-> "", playing |-> FALSE]
    /\ scans = 0
    /\ imageLoads = [u \in ImageNames |-> 0]
    /\ onCanListeners = 0
    /\ selectedName = "Green Dots"
    /\ files = <<>>
    /\ cycleLog = <<>>
    /\ isMirrored = TRUE
    /\ selfieMode = None
    /\ animationRef = 0
    /\ rafQueue = {}
    /\ hasCleanup = FALSE
    /\ effectDeps = CurrentDeps

\* ---- the oracle effect: load, register, clean up ----

\* await import(...) resolves: the instance is constructed, its options set
\* and the listener registered; initialize() is awaited next.
ImportResolved ==
    /\ loadPc = "import"
    /\ loadPc' = "initialize"
    /\ selfieMode' = Some(TRUE)
    /\ UNCHANGED <<mounted, maskVars, segmentationTaskRef, isModelReady,
                   cancelled, closeCalls, sendVars, frameCountRef, isActive,
                   tickRead, tickBg, tickDraw, logVars, fadeVars, pureVars,
                   rafVars, isMirrored, gridVars, modeVars>>

\* the import rejects, or the module has no constructor: catch
ImportFailed ==
    /\ loadPc = "import"
    /\ loadPc' = "importFailed"
    /\ UNCHANGED <<mounted, maskVars, segmentationTaskRef, isModelReady,
                   cancelled, closeCalls, sendVars, frameCountRef, isActive,
                   tickRead, tickBg, tickDraw, logVars, fadeVars, pureVars, rafVars, mirrorVars,
                   gridVars, modeVars>>

\* await initialize() resolves
InitializeResolved ==
    /\ loadPc = "initialize"
    /\ IF cancelled
       THEN /\ closeCalls' = closeCalls + 1
            /\ loadPc' = "closed"
            /\ UNCHANGED <<segmentationTaskRef, isModelReady>>
       ELSE /\ segmentationTaskRef' = "instance"
            /\ isModelReady' = TRUE
            /\ loadPc' = "done"
            /\ UNCHANGED closeCalls
    /\ UNCHANGED <<mounted, maskVars, cancelled, sendVars, frameCountRef,
                   isActive, tickRead, tickBg, tickDraw, logVars, fadeVars,
                   pureVars, rafVars, mirrorVars, gridVars, modeVars>>

\* await initialize() rejects: catch, the instance is dropped
InitializeFailed ==
    /\ loadPc = "initialize"
    /\ loadPc' = "initializeFailed"
    /\ UNCHANGED <<mounted, maskVars, segmentationTaskRef, isModelReady,
                   cancelled, closeCalls, sendVars, frameCountRef, isActive,
                   tickRead, tickBg, tickDraw, logVars, fadeVars, pureVars, rafVars, mirrorVars,
                   gridVars, modeVars>>

\* Unmount: the cleanups of the effects run (oracle effect, stopCamera; the
\* animation effect cancels its pending tick).
Cleanup ==
    /\ mounted
    /\ mounted' = FALSE
    /\ cancelled' = TRUE
    /\ isModelReady' = FALSE
    /\ maskHistoryRef' = <<>>
    /\ smoothedMaskRef' = None
    /\ lastSegmentationRef' = None
    /\ segmentationTaskRef' = "null"
    /\ closeCalls' = IF segmentationTaskRef # "null" THEN closeCalls + 1
                     ELSE closeCalls
    /\ isActive' = FALSE
    /\ rafQueue' = CancelPending(rafQueue)
    /\ hasCleanup' = FALSE
    /\ UNCHANGED <<animationRef, effectDeps>>
    /\ UNCHANGED <<loadPc, sendVars, frameCountRef, shifted, tickRead, tickBg,
                   tickDraw, logVars, fadeVars, pureVars, mirrorVars, gridVars,
                   modeVars>>

\* ---- camera ----

\* the Start button is disabled until the model is ready
startCamera ==
    /\ mounted
    /\ isModelReady
    /\ ~isActive
    /\ isActive' = TRUE
    /\ UNCHANGED <<mounted, maskVars, oracleVars, sendVars, frameCountRef,
                   tickRead, tickBg, tickDraw, logVars, fadeVars, pureVars, rafVars, mirrorVars,
                   gridVars, modeVars>>

stopCamera ==
    /\ mounted
    /\ isActive
    /\ isActive' = FALSE
    /\ UNCHANGED <<mounted, maskVars, oracleVars, sendVars, frameCountRef,
                   tickRead, tickBg, tickDraw, logVars, fadeVars, pureVars, rafVars, mirrorVars,
                   gridVars, modeVars>>

\* ---- the listener: selfieSegmentation.onResults(...) ----

\* A mutant of the publication: smoothedMaskRef is set only while it is null.
PublishedSmoothedOnce(closed) ==
    IF smoothedMaskRef # None THEN smoothedMaskRef ELSE Some(closed)

\* smoothedMaskRef.current = closed
PublishedSmoothed(closed) == Some(closed)

\* lastSegmentationRef.current = { width, height, data: closed }
PublishedSegmentation(width, height, closed) ==
    Some([width |-> width, height |-> height, data |-> closed])

\* a mutant of the size test: no mask counts as empty
IsEmptyMaskNever(width, height) == FALSE

\* if (!width || !height) return
IsEmptyMask(width, height) == width = 0 \/ height = 0

\* a mutant of the no-mask branch: only the history is emptied
onNoMaskKeeps(refs) ==
    [history |-> <<>>, smoothed |-> refs.smoothed,
     segmentation |-> refs.segmentation, voted |-> None]

\* if (!maskBuffer) { the three refs are reset; return }
onNoMask(refs) ==
    [history |-> <<>>, smoothed |-> None, segmentation |-> None,
     voted |-> None]

\* The listener on the three mask refs: what it leaves in them for a result,
\* and the vote it computed, if any.
onResultsOn(refs, result) ==
    IF ~result.mask
    THEN onNoMask(refs)
    ELSE IF IsEmptyMask(result.width, result.height)
    THEN [history |-> refs.history, smoothed |-> refs.smoothed,
          segmentation |-> refs.segmentation, voted |-> None]
    ELSE LET width == result.width
             height == result.height
             flatLen == width * height
             raw == Threshold(result.red, flatLen)
             history == PushHistory(refs.history, raw)
             voted == temporalSmooth(history, flatLen)
             closed == morphologicalClose(voted, width, height, KernelSize)
         IN  [history |-> history,
              smoothed |-> PublishedSmoothed(closed),
              segmentation |-> PublishedSegmentation(width, height, closed),
              voted |-> Some(voted)]

MaskRefs ==
    [history |-> maskHistoryRef, smoothed |-> smoothedMaskRef,
     segmentation |-> lastSegmentationRef]

onResults ==
    /\ inFlight > 0
    /\ \E result \in Results :
          LET after == onResultsOn(MaskRefs, result)
          IN  /\ maskHistoryRef' = after.history
              /\ smoothedMaskRef' = after.smoothed
              /\ lastSegmentationRef' = after.segmentation
              /\ shifted' = (shifted \/ (after.voted # None
                                         /\ Len(maskHistoryRef) + 1 > HistoryCap))
              /\ afterNoMask' = IF ~result.mask THEN "cleared"
                                ELSE IF after.voted # None THEN "no"
                                ELSE afterNoMask
    /\ UNCHANGED <<mounted, oracleVars, sendVars, frameCountRef, isActive,
                   tickRead, tickBg, tickDraw, afterReject, fadeVars,
                   pureVars, rafVars, mirrorVars, gridVars, modeVars>>

\* ---- segmentVideo and the render tick ----

\* await selfie.send(...) settles: finally releases the guard
sendResolved ==
    /\ inFlight > 0
    /\ inFlight' = inFlight - 1
    /\ isProcessingFrameRef' = FALSE
    /\ UNCHANGED <<mounted, maskVars, oracleVars, frameCountRef, isActive,
                   tickRead, tickBg, tickDraw, logVars, fadeVars, pureVars, rafVars, mirrorVars,
                   gridVars, modeVars>>

\* a mutant of the catch: a failed send drops the published mask
sendRejectedClears ==
    /\ inFlight > 0
    /\ inFlight' = inFlight - 1
    /\ isProcessingFrameRef' = FALSE
    /\ afterReject' = "rejected"
    /\ maskHistoryRef' = <<>>
    /\ smoothedMaskRef' = None
    /\ lastSegmentationRef' = None
    /\ UNCHANGED <<mounted, shifted, oracleVars, frameCountRef, isActive,
                   tickRead, tickBg, tickDraw, afterNoMask, fadeVars,
                   pureVars, rafVars, mirrorVars, gridVars, modeVars>>

\* a mutant of the catch: there is no finally, a failed send keeps the guard
sendRejectedHolds ==
    /\ inFlight > 0
    /\ inFlight' = inFlight - 1
    /\ isProcessingFrameRef' = isProcessingFrameRef
    /\ afterReject' = "rejected"
    /\ UNCHANGED <<mounted, maskVars, oracleVars, frameCountRef, isActive,
                   tickRead, tickBg, tickDraw, afterNoMask, fadeVars,
                   pureVars, rafVars, mirrorVars, gridVars, modeVars>>

\* await selfie.send(...) rejects: catch logs "segment error", finally
\* releases the guard
sendRejected ==
    /\ inFlight > 0
    /\ inFlight' = inFlight - 1
    /\ isProcessingFrameRef' = FALSE
    /\ afterReject' = "rejected"
    /\ UNCHANGED <<mounted, maskVars, oracleVars, frameCountRef, isActive,
                   tickRead, tickBg, tickDraw, afterNoMask, fadeVars,
                   pureVars, rafVars, mirrorVars, gridVars, modeVars>>

\* segmentVideo submits: the video has data, an instance is registered and
\* no call is pending
Submits(videoHasData) ==
    /\ videoHasData
    /\ segmentationTaskRef # "null"
    /\ ~isProcessingFrameRef

\* A mutant of segmentVideo: the guard is not consulted.
segmentVideoUnguarded(videoHasData) ==
    IF videoHasData /\ segmentationTaskRef # "null" /\ inFlight < MaxInFlight
    THEN /\ isProcessingFrameRef' = TRUE
         /\ inFlight' = inFlight + 1
    ELSE UNCHANGED sendVars

segmentVideo(videoHasData) ==
    IF Submits(videoHasData)
    THEN /\ isProcessingFrameRef' = TRUE
         /\ inFlight' = inFlight + 1
    ELSE UNCHANGED sendVars

\* what the tick reads: segmentation and maskData (lines 1335-1341)
\* a mutant of the source selection: a loaded image is used in every mode
BgSourceAnyMode ==
    IF imageRef # None /\ imageLoaded
    THEN imageRef
    ELSE IF mode = "VIDEO_REVEAL" /\ mounted /\ bgVideoReady
         THEN Some(bgVideo.src)
         ELSE None

\* bgSource of a tick: the loaded image, or the <video> once ready
BgSource ==
    IF mode = "IMAGE_REVEAL" /\ imageRef # None /\ imageLoaded
    THEN imageRef
    ELSE IF mode = "VIDEO_REVEAL" /\ mounted /\ bgVideoReady
         THEN Some(bgVideo.src)
         ELSE None

\* maskData of a tick
MaskData ==
    IF smoothedMaskRef # None THEN smoothedMaskRef
    ELSE IF lastSegmentationRef # None
         THEN Some(lastSegmentationRef[1].data)
         ELSE None

MaskRead ==
    LET maskData == MaskData
    IN  IF /\ maskData # None
           /\ lastSegmentationRef # None
           /\ lastSegmentationRef[1].width # 0
           /\ lastSegmentationRef[1].height # 0
        THEN Some([width |-> lastSegmentationRef[1].width,
                   height |-> lastSegmentationRef[1].height,
                   data |-> maskData[1]])
        ELSE None

\* ---- the trail ----
\* Time is counted in steps of 100 ms and opacity in parts of Unit.
\* Math.exp(-delta / 300) for delta of `steps` steps, in fixed point:
\* DecayPerStep is e^(-100/300), powers are rounded down
RECURSIVE MathExpNeg(_)
MathExpNeg(steps) ==
    IF steps = 0 THEN Unit ELSE (MathExpNeg(steps - 1) * DecayPerStep) \div Unit

\* a mutant of fadeFactor: the decay itself, not its complement
fadeFactorDecay(delta) == MathExpNeg(delta)

\* const fadeFactor = 1 - Math.exp(-delta / 300)
fadeFactor(delta) == Unit - MathExpNeg(delta)

\* ctx.globalAlpha = Math.min(1, fadeFactor)
globalAlphaOf(delta) ==
    IF fadeFactor(delta) < Unit THEN fadeFactor(delta) ELSE Unit

\* a mutant of the clear: the trail is left on when the trail is disabled
fadeStepKeeps(ghostly, delta, cnv) ==
    [op |-> "fillRect", fillStyle |-> Black, globalAlpha |-> globalAlphaOf(delta),
     x |-> 0, y |-> 0, w |-> cnv.width, h |-> cnv.height]

\* "clear / fade previous frame": the one fillRect of the tick
fadeStep(ghostly, delta, cnv) ==
    [op |-> "fillRect", fillStyle |-> Black,
     globalAlpha |-> IF ghostly THEN globalAlphaOf(delta) ELSE Unit,
     x |-> 0, y |-> 0, w |-> cnv.width, h |-> cnv.height]

\* const delta = nowTs - (lastFrameTimeRef.current || nowTs)
deltaOf(nowTs, last) == nowTs - (IF last # 0 THEN last ELSE nowTs)

\* the pixels of a background source; every media file is one flat colour
PixelOf(src) ==
    CASE src = "a.png" -> <<200, 10, 10>>
      [] src = "b.jpg" -> <<10, 200, 10>>
      [] OTHER -> <<10, 10, 200>>

\* imgd.data of a tick: the source drawn cover-fit over the whole buffer;
\* the blue channel of the pictures tells the pixels of the buffer apart
TickData(bgSource, cnv) ==
    IF bgSource = None
    THEN None
    ELSE Some([k \in 1..(cnv.width * cnv.height) |->
                 <<PixelOf(bgSource[1])[1], PixelOf(bgSource[1])[2], k % 256>>])

\* ctx.arc(...) and ctx.fill() of one dot
dotStep(dot, isActiveNow, dotMode, bgData, cnv) ==
    LET painted == paintDot(dot, isActiveNow, dotMode, bgData, cnv)
    IN  [op |-> "arc", x |-> dot.baseX, y |-> dot.baseY,
         radius |-> painted.radius, fillStyle |-> painted.fill]

\* the canvas calls of one tick, in order; `actives` is isDotActive per dot
TickDraw(delta, actives) ==
    LET data == TickData(BgSource, canvas)
    IN  Some([delta |-> delta,
              ops |-> <<fadeStep(ghostlyEnabled, delta, canvas)>>
                      \o [k \in 1..Len(dotsRef) |->
                            dotStep(dotsRef[k], actives[k], mode, data,
                                    canvas)]])

\* a mutant of the cadence: every tick of an active component submits
onSubmitTickAlways(active, count) == active

\* if (isActive && frameCountRef.current % 2 === 0), on the counter as
\* incremented
onSubmitTick(active, count) == active /\ count % FrameModulus = 0

\* a mutant of the scheduling: the next tick is requested only once the
\* pending send has settled
animationScheduledAfterSend ==
    mounted /\ isModelReady /\ ~isProcessingFrameRef

\* a tick is due: the animation effect has run (the model is ready) and is
\* not cleaned up; every tick ends with requestAnimationFrame(animate)
animationScheduled == mounted /\ isModelReady

\* the body of animate up to its last statement: one render tick
renderTick ==
    /\ frameCountRef' = (frameCountRef + 1) % FrameModulus
    /\ IF onSubmitTick(isActive, frameCountRef')
       THEN \E videoHasData \in BOOLEAN : segmentVideo(videoHasData)
       ELSE UNCHANGED sendVars
    /\ tickRead' = MaskRead
    /\ tickBg' = BgSource
    /\ lastFrameTimeRef' = now
    /\ LET actives == [k \in DOMAIN dotsRef |->
                         isDotActive(dotsRef[k], MaskData, lastSegmentationRef,
                                     canvas)]
       IN  /\ tickDraw' = TickDraw(deltaOf(now, lastFrameTimeRef), actives)
           /\ dotsRef' = [k \in DOMAIN dotsRef |->
                            [dotsRef[k] EXCEPT !.active = actives[k]]]
    /\ UNCHANGED <<window, canvas, dotModeIndex, renderedDotMode, now,
                   ghostlyEnabled>>
    /\ afterReject' = IF afterReject = "no" THEN "no" ELSE "ticked"
    /\ afterNoMask' = IF afterNoMask = "no" THEN "no" ELSE "ticked"
    /\ UNCHANGED <<mounted, maskVars, oracleVars, isActive, pureVars,
                   mirrorVars, modeVars>>

\* One render tick. The animation effect runs only while the model is ready;
\* which frame callback is requested is left out.
animate ==
    /\ animationScheduled
    /\ renderTick
    /\ UNCHANGED rafVars

Init ==
    /\ InitComponent
    /\ mediaDir = InstalledMedia
    /\ paintCall = IdlePaint
    /\ composeCall = IdleCompose
    /\ fadeCall = IdleFade
    /\ feedCall = IdleFeed
    /\ voteCall = IdleVote
    /\ closeCall = IdleClose

Next ==
    \/ ImportResolved
    \/ ImportFailed
    \/ InitializeResolved
    \/ InitializeFailed
    \/ Cleanup
    \/ startCamera
    \/ stopCamera
    \/ onResults
    \/ sendResolved
    \/ animate

Spec == Init /\ [][Next]_vars

\* ---- the component with an oracle whose send() calls all fail ----
NextSend ==
    \/ ImportResolved
    \/ InitializeResolved
    \/ startCamera
    \/ stopCamera
    \/ onResults
    \/ sendRejected
    \/ animate

SpecSend == Init /\ [][NextSend]_vars

\* ---- the component while time passes and the trail is toggled ----
\* performance.now() advances between two callbacks
timePasses ==
    /\ now < MaxTime
    /\ now' = now + 1
    /\ UNCHANGED <<mounted, maskVars, oracleVars, sendVars, frameCountRef,
                   isActive, lastFrameTimeRef, ghostlyEnabled, tickRead,
                   tickBg, tickDraw, logVars, pureVars, rafVars, mirrorVars, gridVars,
                   modeVars>>

\* key "3" and the trail button, both offered while active:
\* setGhostlyEnabled((prev) => !prev)
toggleGhostly ==
    /\ mounted
    /\ isActive
    /\ ghostlyEnabled' = ~ghostlyEnabled
    /\ UNCHANGED <<mounted, maskVars, oracleVars, sendVars, frameCountRef,
                   isActive, now, lastFrameTimeRef, tickRead, tickBg,
                   tickDraw, logVars, pureVars, rafVars, mirrorVars, gridVars, modeVars>>

NextTrail ==
    \/ ImportResolved
    \/ InitializeResolved
    \/ Cleanup
    \/ startCamera
    \/ stopCamera
    \/ sendResolved
    \/ timePasses
    \/ toggleGhostly
    \/ animate

SpecTrail == Init /\ [][NextTrail]_vars

\* ---- the render loop under the browser's frame scheduling ----
\* A requested animation frame is eventually run; nothing makes a send
\* resolve or reject. (The results the oracle delivers are left out: they
\* touch the mask refs only.)
NextLoop ==
    \/ ImportResolved
    \/ InitializeResolved
    \/ Cleanup
    \/ startCamera
    \/ stopCamera
    \/ sendResolved
    \/ sendRejected
    \/ timePasses
    \/ toggleGhostly
    \/ animate

SpecLoop == Init /\ [][NextLoop]_vars /\ WF_vars(animate)

\* ---- the render loop with an oracle that settles every send ----
\* a pending send() promise is eventually resolved or rejected
SpecSettle ==
    /\ Init
    /\ [][NextLoop]_vars
    /\ WF_vars(animate)
    /\ WF_vars(sendResolved \/ sendRejected)

(***************************************************************************)
(* The component without the stabiliser (first FaceReactiveDots): the      *)
(* same refs, no history, no in-flight guard.  Its closure flag `mounted`  *)
(* is ~cancelled, selfieSegmentationRef is segmentationTaskRef and         *)
(* modelLoaded is isModelReady.                                            *)
(***************************************************************************)

\* loadMediaPipe after the import: returns when unmounted, else constructs
\* and registers the instance
ImportResolvedA ==
    /\ loadPc = "import"
    /\ IF cancelled
       THEN /\ loadPc' = "returned"
            /\ UNCHANGED <<segmentationTaskRef, isModelReady>>
       ELSE /\ segmentationTaskRef' = "instance"
            /\ isModelReady' = TRUE
            /\ loadPc' = "done"
    /\ UNCHANGED <<mounted, maskVars, cancelled, closeCalls, sendVars,
                   frameCountRef, isActive, tickRead, tickBg, tickDraw,
                   logVars, fadeVars, pureVars, rafVars, mirrorVars, gridVars, modeVars>>

ImportFailedA ==
    /\ loadPc = "import"
    /\ loadPc' = "importFailed"
    /\ UNCHANGED <<mounted, maskVars, segmentationTaskRef, isModelReady,
                   cancelled, closeCalls, sendVars, frameCountRef, isActive,
                   tickRead, tickBg, tickDraw, logVars, fadeVars, pureVars, rafVars, mirrorVars,
                   gridVars, modeVars>>

\* Unmount: mounted = false, the pending tick is cancelled, the registered
\* instance is closed (the ref keeps it); stopCamera.
CleanupA ==
    /\ mounted
    /\ mounted' = FALSE
    /\ cancelled' = TRUE
    /\ closeCalls' = IF segmentationTaskRef # "null" THEN closeCalls + 1
                     ELSE closeCalls
    /\ isActive' = FALSE
    /\ UNCHANGED <<maskVars, segmentationTaskRef, isModelReady, loadPc,
                   sendVars, frameCountRef, tickRead, tickBg, tickDraw,
                   logVars, fadeVars, pureVars, rafVars, mirrorVars, gridVars, modeVars>>

\* the listener: ignores results once unmounted; keeps the mask's image data
onResultsA ==
    /\ inFlight > 0
    /\ \E result \in Results :
          IF cancelled \/ ~result.mask \/ result.width = 0 \/ result.height = 0
          THEN UNCHANGED maskVars
          ELSE /\ lastSegmentationRef' =
                     Some([width |-> result.width, height |-> result.height,
                           data |-> result.red])
               /\ UNCHANGED <<maskHistoryRef, smoothedMaskRef, shifted>>
    /\ UNCHANGED <<mounted, oracleVars, sendVars, frameCountRef, isActive,
                   tickRead, tickBg, tickDraw, logVars, fadeVars, pureVars, rafVars, mirrorVars,
                   gridVars, modeVars>>

\* await selfieSegmentation.send(...) settles (resolves, or rejects: catch)
sendSettledA ==
    /\ inFlight > 0
    /\ inFlight' = inFlight - 1
    /\ UNCHANGED <<isProcessingFrameRef, mounted, maskVars, oracleVars,
                   frameCountRef, isActive, tickRead, tickBg, tickDraw,
                   logVars, fadeVars, pureVars, rafVars, mirrorVars, gridVars, modeVars>>

\* segmentVideo: no guard; every eligible tick sends
segmentVideoA(videoHasData) ==
    IF videoHasData /\ segmentationTaskRef # "null" /\ inFlight < MaxInFlight
    THEN /\ inFlight' = inFlight + 1
         /\ UNCHANGED isProcessingFrameRef
    ELSE UNCHANGED sendVars

animateA ==
    /\ mounted
    /\ isModelReady
    /\ frameCountRef' = (frameCountRef + 1) % FrameModulus
    /\ IF onSubmitTick(isActive, frameCountRef')
       THEN \E videoHasData \in BOOLEAN : segmentVideoA(videoHasData)
       ELSE UNCHANGED sendVars
    /\ tickRead' = lastSegmentationRef
    /\ tickBg' = BgSource
    /\ lastFrameTimeRef' = now
    /\ LET actives == [k \in DOMAIN dotsRef |->
                         isDotActiveA(dotsRef[k], lastSegmentationRef, canvas)]
       IN  /\ tickDraw' = TickDraw(deltaOf(now, lastFrameTimeRef), actives)
           /\ dotsRef' = [k \in DOMAIN dotsRef |->
                            [dotsRef[k] EXCEPT !.active = actives[k]]]
    /\ UNCHANGED <<window, canvas, dotModeIndex, renderedDotMode, now,
                   ghostlyEnabled, logVars>>
    /\ UNCHANGED <<mounted, maskVars, oracleVars, isActive, pureVars, rafVars, mirrorVars, modeVars>>

NextA ==
    \/ ImportResolvedA
    \/ ImportFailedA
    \/ CleanupA
    \/ startCamera
    \/ stopCamera
    \/ onResultsA
    \/ sendSettledA
    \/ animateA

SpecA == Init /\ [][NextA]_vars

(***************************************************************************)
(* The mode controller: cycleMode, the image load, the background video.   *)
(* The code is the same in both components.  A state setter takes effect   *)
(* at once, and is ignored after unmount.                                  *)
(***************************************************************************)
SetState(current, value) == IF mounted THEN value ELSE current

\* Space, key 1 or the Toggle Effect button (all only while active):
\* cycleMode starts and awaits scanMediaDirectory()
cycleMode ==
    /\ mounted
    /\ isActive
    /\ scans < MaxPendingScans
    /\ scans' = scans + 1
    /\ UNCHANGED <<mode, currentMediaIndexRef, imageRef, imageLoaded,
                   bgVideoReady, bgVideo, imageLoads, onCanListeners,
                   selectedName, mediaDir, files, cycleLog,
              selectionLoading>>
    /\ UNCHANGED <<mounted, maskVars, oracleVars, sendVars, frameCountRef,
                   isActive, tickRead, tickBg, tickDraw, logVars, fadeVars,
                   pureVars, rafVars, mirrorVars, gridVars>>

\* a mutant of the cursor: it does not advance
NextIndexStuck(current, totalOptions) == (current + totalOptions) % totalOptions

\* a mutant of the cursor: it skips an option
NextIndexSkip(current, totalOptions) == (current + 2 + totalOptions) % totalOptions

\* (currentMediaIndexRef.current + 1 + totalOptions) % totalOptions
NextIndex(current, totalOptions) == (current + 1 + totalOptions) % totalOptions

\* a mutant of the return to Green Dots: the cursor is unset, the mode kept
ToGreenDotsKeepMode ==
    /\ mode' = mode
    /\ currentMediaIndexRef' = -1
    /\ selectedName' = "Green Dots"
    /\ selectionLoading' = FALSE
    /\ UNCHANGED <<imageRef, imageLoaded, bgVideoReady, bgVideo, imageLoads,
                   onCanListeners>>

\* a mutant of the return to Green Dots: the cursor is kept
ToGreenDotsKeepCursor ==
    /\ mode' = SetState(mode, "GREEN_DOTS")
    /\ currentMediaIndexRef' = currentMediaIndexRef
    /\ selectedName' = "Green Dots"
    /\ selectionLoading' = FALSE
    /\ UNCHANGED <<imageRef, imageLoaded, bgVideoReady, bgVideo, imageLoads,
                   onCanListeners>>

\* cycleMode, to Green Dots (no files, or the cursor wrapped)
ToGreenDots ==
    /\ mode' = SetState(mode, "GREEN_DOTS")
    /\ currentMediaIndexRef' = -1
    /\ selectedName' = "Green Dots"
    /\ selectionLoading' = FALSE
    /\ UNCHANGED <<imageRef, imageLoaded, bgVideoReady, bgVideo, imageLoads,
                   onCanListeners>>

\* cycleMode, to an image: a new Image starts loading; the video is stopped
ToImage(currentMedia, nextIndex) ==
    /\ imageLoads[currentMedia.name] < MaxPendingLoads
    /\ currentMediaIndexRef' = nextIndex
    /\ selectedName' = currentMedia.name
    /\ selectionLoading' = TRUE
    /\ mode' = SetState(mode, "IMAGE_REVEAL")
    /\ imageLoaded' = SetState(imageLoaded, FALSE)
    /\ imageLoads' = [imageLoads EXCEPT ![currentMedia.name] = @ + 1]
    /\ IF mounted   \* bgVideoRef.current
       THEN /\ bgVideo' = [src |-> "", playing |-> FALSE]
            /\ bgVideoReady' = FALSE
       ELSE UNCHANGED <<bgVideo, bgVideoReady>>
    /\ UNCHANGED <<imageRef, onCanListeners>>

\* cycleMode, to a video: the image is dropped, the <video> loads the file
\* (load() resets readyState, so onCan is not called at once)
ToVideo(currentMedia, nextIndex) ==
    /\ onCanListeners < MaxListeners
    /\ currentMediaIndexRef' = nextIndex
    /\ selectedName' = currentMedia.name
    /\ selectionLoading' = TRUE
    /\ mode' = SetState(mode, "VIDEO_REVEAL")
    /\ imageRef' = None
    /\ imageLoaded' = SetState(imageLoaded, FALSE)
    /\ IF mounted   \* bgVideoRef.current
       THEN /\ bgVideoReady' = FALSE
            /\ bgVideo' = [src |-> currentMedia.name, playing |-> FALSE]
            /\ onCanListeners' = onCanListeners + 1
       ELSE UNCHANGED <<bgVideo, bgVideoReady, onCanListeners>>
    /\ UNCHANGED imageLoads

\* the cursors set since the last return to Green Dots (or since the scan
\* last gave another listing), with the new one
Logged(cursor, scanned) ==
    IF cycleLog = <<>> \/ cycleLog[Len(cycleLog)] = -1 \/ scanned # files
    THEN <<cursor>>
    ELSE IF Len(cycleLog) >= MaxLog
         THEN cycleLog
         ELSE Append(cycleLog, cursor)

\* cycleMode after `await scanMediaDirectory()` gave `scanned`
cycleModeResumes(scanned) ==
    /\ scans > 0
    /\ scans' = scans - 1
    /\ files' = scanned
    /\ LET totalOptions == Len(scanned) + 1
           nextIndex == NextIndex(currentMediaIndexRef, totalOptions)
       IN  IF Len(scanned) = 0 \/ nextIndex = Len(scanned)
           THEN ToGreenDots
           ELSE IF MediaType(scanned[nextIndex + 1]) = "image"
                THEN ToImage(scanned[nextIndex + 1], nextIndex)
                ELSE ToVideo(scanned[nextIndex + 1], nextIndex)
    /\ cycleLog' = Logged(currentMediaIndexRef', scanned)
    /\ UNCHANGED mediaDir
    /\ UNCHANGED <<mounted, maskVars, oracleVars, sendVars, frameCountRef,
                   isActive, tickRead, tickBg, tickDraw, logVars, fadeVars,
                   pureVars, rafVars, mirrorVars, gridVars>>

\* scanMediaDirectory() resolves with the listing
scanReturned == cycleModeResumes(mediaDir)

\* scanMediaDirectory() catches (fetch rejects, response not ok): []
scanFailed == cycleModeResumes(<<>>)

\* files are added to or removed from public/media
mediaDirChanged ==
    /\ \E listing \in MediaLists \ {mediaDir} : mediaDir' = listing
    /\ UNCHANGED <<mode, currentMediaIndexRef, imageRef, imageLoaded,
                   bgVideoReady, bgVideo, scans, imageLoads, onCanListeners,
                   selectedName, files, cycleLog, selectionLoading>>
    /\ UNCHANGED <<mounted, maskVars, oracleVars, sendVars, frameCountRef,
                   isActive, tickRead, tickBg, tickDraw, logVars, fadeVars,
                   pureVars, rafVars, mirrorVars, gridVars>>

\* the Image created by the selection that is current has not loaded yet
CurrentImagePending(u) ==
    selectionLoading /\ selectedName = u /\ imageLoads[u] > 0

\* Images of u created by earlier selections, not loaded yet
StaleLoads(u) == imageLoads[u] - (IF CurrentImagePending(u) THEN 1 ELSE 0)

\* img.onload of an Image created by cycleMode: the Image of the current
\* selection, or one of an earlier selection
imageOnLoad ==
    /\ \E u \in ImageNames :
          /\ imageLoads[u] > 0
          /\ imageLoads' = [imageLoads EXCEPT ![u] = @ - 1]
          /\ imageRef' = Some(u)
          /\ imageLoaded' = SetState(imageLoaded, TRUE)
          /\ \/ CurrentImagePending(u) /\ selectionLoading' = FALSE
             \/ StaleLoads(u) > 0 /\ selectionLoading' = selectionLoading
    /\ UNCHANGED <<mode, currentMediaIndexRef, bgVideoReady, bgVideo, scans,
                   onCanListeners, selectedName, mediaDir, files, cycleLog>>
    /\ UNCHANGED <<mounted, maskVars, oracleVars, sendVars, frameCountRef,
                   isActive, tickRead, tickBg, tickDraw, logVars, fadeVars,
                   pureVars, rafVars, mirrorVars, gridVars>>

\* a playback-ready event of the <video> is one for the current selection
\* when the selection is the file the <video> plays
ReadyEventArrived ==
    IF selectedName = bgVideo.src THEN FALSE ELSE selectionLoading

\* canplaythrough on the <video>: the once-listeners run onCan
bgVideoCanPlayThrough ==
    /\ mounted
    /\ bgVideo.src # ""
    /\ onCanListeners > 0
    /\ onCanListeners' = 0
    /\ bgVideoReady' = TRUE
    /\ bgVideo' = [bgVideo EXCEPT !.playing = TRUE]
    /\ selectionLoading' = ReadyEventArrived
    /\ UNCHANGED <<mode, currentMediaIndexRef, imageRef, imageLoaded, scans,
                   imageLoads, selectedName, mediaDir, files, cycleLog>>
    /\ UNCHANGED <<mounted, maskVars, oracleVars, sendVars, frameCountRef,
                   isActive, tickRead, tickBg, tickDraw, logVars, fadeVars,
                   pureVars, rafVars, mirrorVars, gridVars>>

\* "playing" on the <video>: handlePlaying
bgVideoPlaying ==
    /\ mounted
    /\ bgVideo.playing
    /\ bgVideoReady' = TRUE
    /\ selectionLoading' = ReadyEventArrived
    /\ UNCHANGED <<mode, currentMediaIndexRef, imageRef, imageLoaded, bgVideo,
                   scans, imageLoads, onCanListeners, selectedName, mediaDir,
                   files, cycleLog>>
    /\ UNCHANGED <<mounted, maskVars, oracleVars, sendVars, frameCountRef,
                   isActive, tickRead, tickBg, tickDraw, logVars, fadeVars,
                   pureVars, rafVars, mirrorVars, gridVars>>

\* "pause" on the <video> (the browser pauses playback): handlePause
bgVideoPause ==
    /\ mounted
    /\ bgVideo.playing
    /\ bgVideo' = [bgVideo EXCEPT !.playing = FALSE]
    /\ bgVideoReady' = FALSE
    /\ UNCHANGED <<mode, currentMediaIndexRef, imageRef, imageLoaded, scans,
                   imageLoads, onCanListeners, selectedName, mediaDir, files,
                   cycleLog, selectionLoading>>
    /\ UNCHANGED <<mounted, maskVars, oracleVars, sendVars, frameCountRef,
                   isActive, tickRead, tickBg, tickDraw, logVars, fadeVars,
                   pureVars, rafVars, mirrorVars, gridVars>>

NextMode ==
    \/ ImportResolved
    \/ InitializeResolved
    \/ Cleanup
    \/ startCamera
    \/ stopCamera
    \/ cycleMode
    \/ scanReturned
    \/ scanFailed
    \/ mediaDirChanged
    \/ imageOnLoad
    \/ bgVideoCanPlayThrough
    \/ bgVideoPlaying
    \/ bgVideoPause
    \/ animate

SpecMode == Init /\ [][NextMode]_vars

\* The mode controller over a media directory that does not change and a
\* scan that does not fail.
InitCycle ==
    /\ InitComponent
    /\ mediaDir \in MediaLists
    /\ paintCall = IdlePaint
    /\ composeCall = IdleCompose
    /\ fadeCall = IdleFade
    /\ feedCall = IdleFeed
    /\ voteCall = IdleVote
    /\ closeCall = IdleClose

NextCycle ==
    \/ ImportResolved
    \/ InitializeResolved
    \/ Cleanup
    \/ startCamera
    \/ stopCamera
    \/ cycleMode
    \/ scanReturned
    \/ imageOnLoad
    \/ bgVideoCanPlayThrough
    \/ bgVideoPlaying
    \/ bgVideoPause
    \/ animate

SpecCycle == InitCycle /\ [][NextCycle]_vars

\* ---- the cycle requests alone: scans overlap, fail, and see the media ----
\* ---- directory change; no tick runs                                   ----
NextScan ==
    \/ ImportResolved
    \/ InitializeResolved
    \/ Cleanup
    \/ startCamera
    \/ cycleMode
    \/ scanReturned
    \/ scanFailed
    \/ mediaDirChanged
    \/ imageOnLoad
    \/ bgVideoCanPlayThrough

SpecScan == Init /\ [][NextScan]_vars

\* ---- the modes while the oracle sees a silhouette that fills the frame ----
\* the listener, for the first results, whose masks are on in every cell
onFullResult ==
    /\ Len(maskHistoryRef) < MaxFull
    /\ onResults
    /\ maskHistoryRef' # <<>>
    /\ maskHistoryRef'[Len(maskHistoryRef')] = [i \in 1..(SegW * SegH) |-> 1]
    /\ lastSegmentationRef'[1].width = SegW

\* key 1 or the mode button, pressed once the previous selection has been
\* made and its file has loaded
cycleModeAlone ==
    /\ scans = 0
    /\ onCanListeners = 0
    /\ \A u \in ImageNames : imageLoads[u] = 0
    /\ cycleMode

NextReveal ==
    \/ ImportResolved
    \/ InitializeResolved
    \/ startCamera
    \/ onFullResult
    \/ sendResolved
    \/ cycleModeAlone
    \/ scanReturned
    \/ imageOnLoad
    \/ bgVideoCanPlayThrough
    \/ animate

SpecReveal == InitCycle /\ [][NextReveal]_vars

(***************************************************************************)
(* The dot grid: resizeCanvas, cycleDotMode and the effects that rebuild   *)
(* the grid.                                                               *)
(***************************************************************************)
Widths == {0, WinW - 7, WinW}
Heights == {0, WinH - 13, WinH}

gridFrame ==
    UNCHANGED <<mounted, maskVars, oracleVars, sendVars, frameCountRef,
                isActive, tickRead, tickBg, tickDraw, logVars, fadeVars,
                pureVars, rafVars, mirrorVars, modeVars>>

\* key 2 or the density button (both only while active)
cycleDotMode ==
    /\ mounted
    /\ isActive
    /\ dotModeIndex' = (dotModeIndex + 1) % Len(DOT_MODES)
    /\ UNCHANGED <<window, canvas, renderedDotMode, dotsRef>>
    /\ gridFrame

\* a mutant of resizeCanvas: the dots that fit the new canvas are kept
resizeCanvasPatching(index) ==
    /\ canvas' = window'
    /\ dotsRef' = IF Len(dotsRef) = Len(initializeDots(canvas', currentDotMode(index)))
                  THEN dotsRef
                  ELSE initializeDots(canvas', currentDotMode(index))

\* resizeCanvas, with the initializeDots of the render whose preset is index
resizeCanvas(index) ==
    /\ canvas' = window'
    /\ dotsRef' = initializeDots(canvas', currentDotMode(index))

\* the render after setDotModeIndex is committed: the effects on
\* [resizeCanvas] and [initializeDots] run with the new callbacks
runDotEffects ==
    /\ mounted
    /\ renderedDotMode # dotModeIndex
    /\ renderedDotMode' = dotModeIndex
    /\ window' = window
    /\ resizeCanvas(dotModeIndex)
    /\ UNCHANGED dotModeIndex
    /\ gridFrame

\* the window is resized: the registered "resize" listener runs
windowResized ==
    /\ mounted
    /\ \E w \in Widths, h \in Heights :
          /\ [width |-> w, height |-> h] # window
          /\ window' = [width |-> w, height |-> h]
    /\ resizeCanvas(renderedDotMode)
    /\ UNCHANGED <<dotModeIndex, renderedDotMode>>
    /\ gridFrame

NextGrid ==
    \/ ImportResolved
    \/ InitializeResolved
    \/ Cleanup
    \/ startCamera
    \/ stopCamera
    \/ cycleDotMode
    \/ runDotEffects
    \/ windowResized
    \/ animate

SpecGrid == Init /\ [][NextGrid]_vars

\* ---- the animation effect and the frame callbacks it requests ----
\* all but the frame bookkeeping
tickVars ==
    <<frameCountRef, sendVars, tickRead, tickBg, tickDraw, logVars, fadeVars,
      gridVars, mounted, maskVars, oracleVars, isActive, pureVars, mirrorVars,
      modeVars>>

\* A dependency of the animation effect has changed and React runs the
\* effect again: the cleanup of the previous run (if that run got as far as
\* returning one), then the body, which returns early without a model and
\* else calls animate() at once.
runAnimationEffect ==
    /\ mounted
    /\ effectDeps # CurrentDeps
    /\ effectDeps' = CurrentDeps
    /\ LET kept == IF hasCleanup THEN CancelPending(rafQueue) ELSE rafQueue
       IN  IF isModelReady
           THEN /\ Cardinality(kept) < MaxFrames
                /\ renderTick
                /\ animationRef' = requestAnimationFrame(kept)
                /\ rafQueue' = kept \cup {requestAnimationFrame(kept)}
                /\ hasCleanup' = TRUE
           ELSE /\ rafQueue' = kept
                /\ hasCleanup' = FALSE
                /\ UNCHANGED animationRef
                /\ UNCHANGED tickVars

\* The browser runs a requested frame callback: animate. Without a canvas
\* (after unmount) it only requests the next frame. (The callback reads the
\* state its effect run closed over; the tick here reads the state as it
\* stands.)
animationFrame ==
    /\ \E id \in rafQueue :
          LET rest == rafQueue \ {id}
          IN  /\ animationRef' = requestAnimationFrame(rest)
              /\ rafQueue' = rest \cup {requestAnimationFrame(rest)}
    /\ IF mounted THEN renderTick ELSE UNCHANGED tickVars
    /\ UNCHANGED <<effectDeps, hasCleanup>>

\* a mutant of the toggle: the view is mirrored, the instance is not told
toggleMirrorViewOnly ==
    /\ mounted
    /\ isActive
    /\ isMirrored' = ~isMirrored
    /\ selfieMode' = selfieMode
    /\ UNCHANGED <<mounted, maskVars, oracleVars, sendVars, frameCountRef,
                   isActive, tickRead, tickBg, tickDraw, logVars, fadeVars,
                   pureVars, rafVars, gridVars, modeVars>>

\* key "4" and the mirror button, both offered while active:
\* setIsMirrored((prev) => !prev); the effect on [isMirrored] then sets the
\* option on the registered instance
toggleMirror ==
    /\ mounted
    /\ isActive
    /\ isMirrored' = ~isMirrored
    /\ selfieMode' = IF segmentationTaskRef # "null" THEN Some(isMirrored')
                     ELSE selfieMode
    /\ UNCHANGED <<mounted, maskVars, oracleVars, sendVars, frameCountRef,
                   isActive, tickRead, tickBg, tickDraw, logVars, fadeVars,
                   pureVars, rafVars, gridVars, modeVars>>

NextRaf ==
    \/ ImportResolved
    \/ InitializeResolved
    \/ Cleanup
    \/ startCamera
    \/ stopCamera
    \/ sendResolved
    \/ toggleGhostly
    \/ toggleMirror
    \/ cycleModeAlone
    \/ scanReturned
    \/ imageOnLoad
    \/ bgVideoCanPlayThrough
    \/ runAnimationEffect
    \/ animationFrame

SpecRaf == Init /\ [][NextRaf]_vars

(***************************************************************************)
(* The pure functions, applied to every input within the bounds.           *)
(***************************************************************************)
Masks(n) == [1..n -> Bit]

\* Histories of 1..4 masks over the same `length` cells.
InitVote ==
    /\ \E length \in 1..MaxLen, n \in 1..HistoryCap :
          \E masks \in [1..n -> Masks(length)] :
             voteCall = [pc |-> "ready", masks |-> masks,
                         length |-> length, out |-> <<>>]
    /\ closeCall = IdleClose
    /\ paintCall = IdlePaint
    /\ composeCall = IdleCompose
    /\ fadeCall = IdleFade
    /\ feedCall = IdleFeed
    /\ InitComponent
    /\ mediaDir = InstalledMedia

CallTemporalSmooth ==
    /\ voteCall.pc = "ready"
    /\ voteCall' = [voteCall EXCEPT
                      !.pc = "voted",
                      !.out = temporalSmooth(voteCall.masks, voteCall.length)]
    /\ UNCHANGED <<closeCall, paintCall, composeCall, fadeCall, feedCall,
                   compVars>>

\* One more "on" observation of cell i (entry k turns from 0 to 1), revoted.
RaiseObservation ==
    /\ voteCall.pc = "voted"
    /\ \E k \in 1..Len(voteCall.masks), i \in 1..voteCall.length :
          /\ voteCall.masks[k][i] = 0
          /\ LET raised == [voteCall.masks EXCEPT ![k][i] = 1]
             IN  voteCall' = [voteCall EXCEPT
                                !.masks = raised,
                                !.out = temporalSmooth(raised, voteCall.length)]
    /\ UNCHANGED <<closeCall, paintCall, composeCall, fadeCall, feedCall,
                   compVars>>

NextVote == CallTemporalSmooth \/ RaiseObservation

SpecVote == InitVote /\ [][NextVote]_vars

InitClose ==
    /\ \E w \in 1..MaxW, h \in 1..MaxH :
          /\ w * h <= MaxCells
          /\ \E src \in Masks(w * h) :
                closeCall = [pc |-> "ready", src |-> src, w |-> w, h |-> h,
                             once |-> <<>>, twice |-> <<>>]
    /\ voteCall = IdleVote
    /\ paintCall = IdlePaint
    /\ composeCall = IdleCompose
    /\ fadeCall = IdleFade
    /\ feedCall = IdleFeed
    /\ InitComponent
    /\ mediaDir = InstalledMedia

CallClose ==
    /\ closeCall.pc = "ready"
    /\ closeCall' = [closeCall EXCEPT
                       !.pc = "closed",
                       !.once = morphologicalClose(closeCall.src, closeCall.w,
                                                   closeCall.h, KernelSize)]
    /\ UNCHANGED <<voteCall, paintCall, composeCall, fadeCall, feedCall,
                   compVars>>

CallCloseAgain ==
    /\ closeCall.pc = "closed"
    /\ closeCall' = [closeCall EXCEPT
                       !.pc = "reclosed",
                       !.twice = morphologicalClose(closeCall.once, closeCall.w,
                                                    closeCall.h, KernelSize)]
    /\ UNCHANGED <<voteCall, paintCall, composeCall, fadeCall, feedCall,
                   compVars>>

NextClose == CallClose \/ CallCloseAgain

SpecClose == InitClose /\ [][NextClose]_vars

\* ---- the painting of one dot ----
Modes == {"GREEN_DOTS", "IMAGE_REVEAL", "VIDEO_REVEAL"}

\* a Dot with its anchor at (x, y)
DotAt(x, y, dotMode) ==
    [x |-> x, y |-> y, baseX |-> x, baseY |-> y, size |-> dotMode.baseSize,
     baseSize |-> dotMode.baseSize, active |-> FALSE]

\* masks of n cells: all off, all on, one cell on, one cell off
ProbeMasks(n) ==
    {[i \in 1..n |-> 0], [i \in 1..n |-> 1]}
        \cup {[i \in 1..n |-> IF i = c THEN 1 ELSE 0] : c \in 1..n}
        \cup {[i \in 1..n |-> IF i = c THEN 0 ELSE 1] : c \in 1..n}

\* what onResults publishes: smoothedMaskRef and lastSegmentationRef hold
\* the same w * h cells, or both are null
Publications(sizes) ==
    {None} \cup
    UNION {{Some([width |-> wh[1], height |-> wh[2], data |-> m]) :
               m \in ProbeMasks(wh[1] * wh[2])} : wh \in sizes}

\* a composited buffer: imgd.data of a w x h canvas, pixel k coloured by k
BufferOf(w, h) == [k \in 1..(w * h) |-> <<k, k + 1, k + 2>>]

PaintInput(dotMode, bgData, published, cnv, dot) ==
    [pc |-> "ready", mode |-> dotMode, bgData |-> bgData,
     published |-> published, canvas |-> cnv, dot |-> dot, out |-> <<>>]

\* every mode, with and without a composited buffer, masks of two sizes, dot
\* anchors in and beyond the canvas; and a 64x36 mask on a 640x480 canvas
InitPaint ==
    /\ \/ \E dotMode \in Modes, composited \in BOOLEAN,
             published \in Publications({<<PaintW - 1, PaintH - 1>>,
                                         <<PaintW - 2, PaintH>>}),
             x \in 0..(PaintW + 1), y \in 0..(PaintH + 1),
             preset \in {0, 2} :
             paintCall =
                PaintInput(dotMode,
                           IF composited THEN Some(BufferOf(PaintW, PaintH))
                           ELSE None,
                           published,
                           [width |-> PaintW, height |-> PaintH],
                           DotAt(x, y, currentDotMode(preset)))
       \/ \E c \in (18 * 64 + 32)..(18 * 64 + 34), on \in Bit,
             dotMode \in Modes :
             paintCall =
                   PaintInput(dotMode, None,
                              Some([width |-> 64, height |-> 36,
                                    data |-> [i \in 1..(64 * 36) |->
                                                IF i = c THEN on ELSE 1 - on]]),
                              [width |-> 640, height |-> 480],
                              DotAt(320, 240, currentDotMode(1)))
    /\ voteCall = IdleVote
    /\ closeCall = IdleClose
    /\ composeCall = IdleCompose
    /\ fadeCall = IdleFade
    /\ feedCall = IdleFeed
    /\ InitComponent
    /\ mediaDir = InstalledMedia

\* one iteration of dotsRef.current.forEach in animate
CallPaintDot ==
    /\ paintCall.pc = "ready"
    /\ LET maskData == IF paintCall.published = None THEN None
                       ELSE Some(paintCall.published[1].data)
           isActiveNow == isDotActive(paintCall.dot, maskData,
                                      paintCall.published, paintCall.canvas)
       IN  paintCall' =
              [paintCall EXCEPT
                 !.pc = "painted",
                 !.out = paintDot(paintCall.dot, isActiveNow, paintCall.mode,
                                  paintCall.bgData, paintCall.canvas)]
    /\ UNCHANGED <<voteCall, closeCall, composeCall, fadeCall, feedCall,
                   compVars>>

NextPaint == CallPaintDot

SpecPaint == InitPaint /\ [][NextPaint]_vars

\* ---- the composition of a background ----
\* bgSource: its natural size and its pixels, rows of columns (0 or 1)
Sources ==
    UNION {{[width |-> w, height |-> h, pixels |-> px] :
               px \in [1..h -> [1..w -> Bit]]} : w \in 1..SrcW, h \in 1..SrcH}

Canvases == {[width |-> w, height |-> h] : w \in 1..CanvW, h \in 1..CanvH}

\* sources that report no width or no height (an audio-only video, an
\* image without natural size)
EmptySources ==
    {[width |-> 0, height |-> h, pixels |-> [r \in 1..h |-> <<>>]] :
        h \in 0..SrcH}
    \cup {[width |-> w, height |-> 0, pixels |-> <<>>] : w \in 1..SrcW}

ComposeInput(source, cnv) ==
    [pc |-> "ready", source |-> source, canvas |-> cnv, fit |-> <<>>,
     plain |-> <<>>, mirrored |-> <<>>, fills |-> <<>>]

\* getImageData of a composited pixel: transparent black where nothing was
\* drawn, else the colour of a source pixel drawn there (0 black, 1 white)
Shades(cells) ==
    IF cells = {} THEN {<<0, 0, 0>>}
    ELSE {<<255 * v, 255 * v, 255 * v>> : v \in cells}

\* the fills an active dot anchored at pixel k may get in a reveal mode
\* when `composed` is the tick's buffer
FillsAt(k, composed, cnv) ==
    LET dot == DotAt((k - 1) % cnv.width, (k - 1) \div cnv.width,
                     currentDotMode(1))
    IN  {activeFill("IMAGE_REVEAL",
                    Some([j \in 1..(cnv.width * cnv.height) |->
                            IF j = k THEN shade ELSE <<0, 0, 0>>]),
                    dot, cnv) : shade \in Shades(composed.data[k])}

\* every small source on every small canvas; and a 200x100 source on a
\* 400x300 canvas, given by its size alone
InitCompose ==
    /\ \/ \E source \in Sources, cnv \in Canvases :
             composeCall = ComposeInput(source, cnv)
       \/ composeCall =
             ComposeInput([width |-> 200, height |-> 100, pixels |-> <<>>],
                          [width |-> 400, height |-> 300])
    /\ voteCall = IdleVote
    /\ closeCall = IdleClose
    /\ paintCall = IdlePaint
    /\ fadeCall = IdleFade
    /\ feedCall = IdleFeed
    /\ InitComponent
    /\ mediaDir = InstalledMedia

\* the cover-fit of a tick
CallCoverFit ==
    /\ composeCall.pc = "ready"
    /\ composeCall' =
          [composeCall EXCEPT
             !.pc = "fitted",
             !.fit = coverFit(composeCall.source.width,
                              composeCall.source.height, composeCall.canvas)]
    /\ UNCHANGED <<voteCall, closeCall, paintCall, fadeCall, feedCall,
                   compVars>>

\* the draw of a tick, with isMirrored false and true
CallComposite ==
    /\ composeCall.pc = "fitted"
    /\ Len(composeCall.source.pixels) = composeCall.source.height
    /\ composeCall' =
          [composeCall EXCEPT
             !.pc = "composed",
             !.plain = composite(composeCall.source, composeCall.canvas, FALSE),
             !.mirrored = composite(composeCall.source, composeCall.canvas, TRUE)]
    /\ UNCHANGED <<voteCall, closeCall, paintCall, fadeCall, feedCall,
                   compVars>>

\* the fill of an active dot at every pixel of the canvas, from the
\* unmirrored buffer
CallFill ==
    /\ composeCall.pc = "composed"
    /\ composeCall' =
          [composeCall EXCEPT
             !.pc = "filled",
             !.fills = [k \in 1..(composeCall.canvas.width
                                    * composeCall.canvas.height) |->
                          FillsAt(k, composeCall.plain, composeCall.canvas)]]
    /\ UNCHANGED <<voteCall, closeCall, paintCall, fadeCall, feedCall,
                   compVars>>

NextCompose == CallCoverFit \/ CallComposite \/ CallFill

SpecCompose == InitCompose /\ [][NextCompose]_vars

\* the same calls on the sources without width or height
InitEmpty ==
    /\ \E source \in EmptySources, cnv \in Canvases :
          composeCall = ComposeInput(source, cnv)
    /\ voteCall = IdleVote
    /\ closeCall = IdleClose
    /\ paintCall = IdlePaint
    /\ fadeCall = IdleFade
    /\ feedCall = IdleFeed
    /\ InitComponent
    /\ mediaDir = InstalledMedia

SpecEmpty == InitEmpty /\ [][NextCompose]_vars

(***************************************************************************)
(* The fade opacity as a function of the elapsed time.                     *)
(***************************************************************************)
InitFade ==
    /\ \E delta \in 0..MaxDelta : fadeCall = [pc |-> "ready", delta |-> delta]
    /\ voteCall = IdleVote
    /\ closeCall = IdleClose
    /\ paintCall = IdlePaint
    /\ composeCall = IdleCompose
    /\ feedCall = IdleFeed
    /\ InitComponent
    /\ mediaDir = InstalledMedia

\* the opacity for delta, and for a tick one step later
CallFade ==
    /\ fadeCall.pc = "ready"
    /\ fadeCall' = [pc |-> "done", delta |-> fadeCall.delta,
                    out |-> globalAlphaOf(fadeCall.delta),
                    longer |-> globalAlphaOf(fadeCall.delta + 1)]
    /\ UNCHANGED <<voteCall, closeCall, paintCall, composeCall, feedCall,
                   compVars>>

NextFade ==
    \/ CallFade

SpecFade == InitFade /\ [][NextFade]_vars

(***************************************************************************)
(* The listener fed a run of results, on mask refs of its own.             *)
(***************************************************************************)
\* what the oracle may hand over: Results and a mask of zero height
FeedResults == Results \cup {MaskResult(SegW, 0, <<>>)}

EmptyRefs == [history |-> <<>>, smoothed |-> None, segmentation |-> None]

\* per cell, the frames since the history was last emptied in which the cell
\* was on and in which it was off
NoFrames == [frames |-> 0, ones |-> [i \in 1..(SegW * SegH) |-> 0],
             zeros |-> [i \in 1..(SegW * SegH) |-> 0]]

Counted(seen, result) ==
    IF ~result.mask THEN NoFrames
    ELSE IF IsEmptyMask(result.width, result.height) THEN seen
    ELSE LET flatLen == result.width * result.height
             raw == Threshold(result.red, flatLen)
         IN  [frames |-> seen.frames + 1,
              ones |-> [i \in 1..(SegW * SegH) |->
                          IF i <= flatLen /\ raw[i] = 1
                          THEN seen.ones[i] + 1 ELSE seen.ones[i]],
              zeros |-> [i \in 1..(SegW * SegH) |->
                           IF i <= flatLen /\ raw[i] = 0
                           THEN seen.zeros[i] + 1 ELSE seen.zeros[i]]]

InitFeed ==
    /\ feedCall = [pc |-> "feeding", n |-> 0, refs |-> EmptyRefs,
                   before |-> EmptyRefs, last |-> None, voted |-> None,
                   seen |-> NoFrames]
    /\ voteCall = IdleVote
    /\ closeCall = IdleClose
    /\ paintCall = IdlePaint
    /\ composeCall = IdleCompose
    /\ fadeCall = IdleFade
    /\ InitComponent
    /\ mediaDir = InstalledMedia

\* the oracle delivers one more result
Deliver ==
    /\ feedCall.pc = "feeding"
    /\ feedCall.n < MaxFeed
    /\ \E result \in FeedResults :
          LET after == onResultsOn(feedCall.refs, result)
          IN  feedCall' =
                 [pc |-> "feeding", n |-> feedCall.n + 1,
                  refs |-> [history |-> after.history,
                            smoothed |-> after.smoothed,
                            segmentation |-> after.segmentation],
                  before |-> feedCall.refs, last |-> Some(result),
                  voted |-> after.voted,
                  seen |-> Counted(feedCall.seen, result)]
    /\ UNCHANGED <<voteCall, closeCall, paintCall, composeCall, fadeCall,
                   compVars>>

NextFeed ==
    \/ Deliver

SpecFeed == InitFeed /\ [][NextFeed]_vars

(***************************************************************************)
(* Claims                                                                  *)
(***************************************************************************)
OnCount(masks, i) == Cardinality({k \in 1..Len(masks) : masks[k][i] = 1})

\* C1: over a history of n masks (n in 1..4) temporalSmooth marks a cell on
\* exactly when the cell is 1 in at least ceil(n * 0.75) entries, that is in
\* at least three quarters of them: one mask passes through unchanged, and of
\* four masks three must agree ([1,1,1,0] votes on, [1,1,0,0] votes off).
C1_VoteThreshold ==
    voteCall.pc = "voted" =>
        LET n == Len(voteCall.masks) IN
        /\ \A i \in 1..voteCall.length :
              voteCall.out[i] = 1 <=> 4 * OnCount(voteCall.masks, i) >= 3 * n
        /\ n = 1 => voteCall.out = voteCall.masks[1]
        /\ \A i \in 1..voteCall.length :
              /\ n = 4 => (voteCall.out[i] = 1 <=> OnCount(voteCall.masks, i) >= 3)
              /\ <<1, 1, 1, 0>> = [k \in 1..n |-> voteCall.masks[k][i]]
                    => voteCall.out[i] = 1
              /\ <<1, 1, 0, 0>> = [k \in 1..n |-> voteCall.masks[k][i]]
                    => voteCall.out[i] = 0

C1_Witness ==
    /\ voteCall.pc = "voted"
    /\ voteCall.length = 2
    /\ [k \in 1..Len(voteCall.masks) |-> voteCall.masks[k][1]] = <<1, 1, 1, 0>>
    /\ [k \in 1..Len(voteCall.masks) |-> voteCall.masks[k][2]] = <<1, 1, 0, 0>>
    /\ voteCall.out = <<1, 0>>

\* C2: morphological closing is idempotent: closing a closed mask again
\* gives the same mask, for every mask on every grid within the bounds.
C2_CloseIdempotent ==
    closeCall.pc = "reclosed" => closeCall.twice = closeCall.once

C2_Witness ==
    /\ closeCall.pc = "reclosed"
    /\ closeCall.w = 4
    /\ closeCall.h = 3
    /\ closeCall.once # closeCall.src
    /\ \E p \in 1..Len(closeCall.once) : closeCall.once[p] = 1
    /\ \E p \in 1..Len(closeCall.once) : closeCall.once[p] = 0 /\ closeCall.src[p] = 1

\* C3: the vote is monotonic: one more "on" observation of a cell, the other
\* entries unchanged, never turns a voted cell from on to off.
C3_VoteMonotonic ==
    [][voteCall.pc = "voted" =>
          \A i \in 1..voteCall.length :
             voteCall.out[i] = 1 => voteCall'.out[i] = 1]_vars

C3_Witness ==
    /\ voteCall.pc = "voted"
    /\ Len(voteCall.masks) = 4
    /\ \E i \in 1..voteCall.length :
          /\ OnCount(voteCall.masks, i) = 4
          /\ voteCall.out[i] = 1
    /\ \E i \in 1..voteCall.length :
          /\ OnCount(voteCall.masks, i) = 2
          /\ voteCall.out[i] = 0

\* the published StabilizedMask and the dilated vote it was eroded from
PublishedSeg == lastSegmentationRef[1]
DilatedVote ==
    dilate(temporalSmooth(maskHistoryRef, PublishedSeg.width * PublishedSeg.height),
           PublishedSeg.width, PublishedSeg.height, KernelSize)

\* C4: in every published StabilizedMask a cell is on only if its whole 3x3
\* footprint lies on the grid and is on in the dilated voted mask; so every
\* cell of the outermost rows and columns is off, and a grid narrower or
\* shorter than 3 cells is entirely off.
C4_OnOnlyWithFullFootprint ==
    lastSegmentationRef # None =>
        LET w == PublishedSeg.width
            h == PublishedSeg.height
        IN  /\ smoothedMaskRef = Some(PublishedSeg.data)
            /\ \A x \in 0..(w - 1), y \in 0..(h - 1) :
                  PublishedSeg.data[Idx(x, y, w)] = 1 =>
                     /\ 1 <= x /\ x <= w - 2
                     /\ 1 <= y /\ y <= h - 2
                     /\ \A dx \in {-1, 0, 1}, dy \in {-1, 0, 1} :
                           DilatedVote[Idx(x + dx, y + dy, w)] = 1
            /\ \A x \in 0..(w - 1), y \in 0..(h - 1) :
                  (x = 0 \/ y = 0 \/ x = w - 1 \/ y = h - 1)
                     => PublishedSeg.data[Idx(x, y, w)] = 0
            /\ (w < 3 \/ h < 3) =>
                  \A p \in 1..(w * h) : PublishedSeg.data[p] = 0

\* a published mask with a cell on, whose border cells are off although the
\* dilated vote is on there
C4_Witness ==
    /\ lastSegmentationRef # None
    /\ \E p \in 1..Len(PublishedSeg.data) : PublishedSeg.data[p] = 1
    /\ DilatedVote[Idx(0, 0, PublishedSeg.width)] = 1
    /\ PublishedSeg.data[Idx(0, 0, PublishedSeg.width)] = 0

\* C5: MaskHistory never holds more than 4 raw masks; an append to a full
\* history evicts the oldest entry and keeps the others in arrival order.
C5_HistoryFifo ==
    [][/\ Len(maskHistoryRef') <= 4
       /\ (maskHistoryRef' # <<>> /\ maskHistoryRef' # maskHistoryRef) =>
             IF Len(maskHistoryRef) = 4
             THEN SubSeq(maskHistoryRef', 1, 3) = SubSeq(maskHistoryRef, 2, 4)
             ELSE SubSeq(maskHistoryRef', 1, Len(maskHistoryRef)) = maskHistoryRef
       /\ (shifted' /\ ~shifted) =>
             /\ Len(maskHistoryRef) = 4
             /\ Len(maskHistoryRef') = 4
             /\ SubSeq(maskHistoryRef', 1, 3) = SubSeq(maskHistoryRef, 2, 4)]_vars

\* a full history after an eviction, its oldest and newest entries different
C5_Witness ==
    /\ shifted
    /\ Len(maskHistoryRef) = 4
    /\ maskHistoryRef[1] # maskHistoryRef[2]
    /\ maskHistoryRef[2] # maskHistoryRef[4]

\* C6: all entries of MaskHistory share the same dimensions in every
\* reachable state (a mask of another size clears the history first).
C6_HistoryOneSize ==
    \A k \in 1..Len(maskHistoryRef) :
        Len(maskHistoryRef[k]) = Len(maskHistoryRef[1])

\* C7: a render tick reads the width, the height and the cells of one and
\* the same publication (width * height cells), or no mask at all; the two
\* refs it reads are always set together and cleared together.
C7_TickReadsOnePublication ==
    /\ tickRead # None =>
          Len(tickRead[1].data) = tickRead[1].width * tickRead[1].height
    /\ (smoothedMaskRef = None) <=> (lastSegmentationRef = None)
    /\ lastSegmentationRef # None =>
          /\ smoothedMaskRef = Some(PublishedSeg.data)
          /\ Len(PublishedSeg.data) = PublishedSeg.width * PublishedSeg.height

\* a tick read the narrow mask after a tick had read the wide one: the
\* published mask is the wide one again while the last read is narrow
C7_Witness ==
    /\ tickRead # None
    /\ tickRead[1].width = SegW - 2
    /\ lastSegmentationRef # None
    /\ PublishedSeg.width = SegW
    /\ \E p \in 1..Len(PublishedSeg.data) : PublishedSeg.data[p] = 1

\* C8: at most one oracle send call is in flight at any time (an eligible
\* tick that finds a send pending skips its submission).
C8_OneSendInFlight == inFlight <= 1

\* The guarded component: the guard is set exactly while a send is pending.
GuardedOneSendInFlight ==
    /\ inFlight <= 1
    /\ isProcessingFrameRef <=> inFlight = 1

\* C9: a stale media load never overwrites the current source: when the
\* load of an image that is not the current selection completes, the image
\* the compositor uses and the loaded / ready flags stay as they were.
C9_StaleLoadIgnored ==
    [][\A u \in ImageNames :
          (imageLoads'[u] < imageLoads[u] /\ selectedName # u) =>
             /\ imageRef' = imageRef
             /\ imageLoaded' = imageLoaded
             /\ bgVideoReady' = bgVideoReady]_vars

\* C10: once the oracle effect's loader and the teardown have both finished,
\* close() has been invoked exactly once on the instance constructed, in
\* whatever order they ran; and never twice.
InstanceConstructed ==
    loadPc \in {"initialize", "initializeFailed", "done", "closed"}

LoaderFinished ==
    loadPc \in {"importFailed", "initializeFailed", "done", "closed", "returned"}

C10_ClosedExactlyOnce ==
    /\ closeCalls <= 1
    /\ (~mounted /\ LoaderFinished /\ InstanceConstructed) => closeCalls = 1

\* The same, for the runs in which initialize() resolves.
ClosedExactlyOnceWhenInitialized ==
    /\ closeCalls <= 1
    /\ (~mounted /\ loadPc \in {"done", "closed"}) => closeCalls = 1
    /\ (mounted \/ ~InstanceConstructed) => closeCalls = 0

\* C11: a cycle request that finds N >= 1 media entries moves the cursor to
\* (cursor + 1) mod (N + 1), the unset cursor counting as -1; a result of N
\* means Green Dots with the cursor unset, any other result is the new
\* cursor and the mode is the reveal mode of the type of that entry.
RevealMode(file) ==
    IF MediaType(file) = "image" THEN "IMAGE_REVEAL" ELSE "VIDEO_REVEAL"

C11_CursorAdvances ==
    [][(scans' < scans /\ mounted /\ Len(files') >= 1) =>
          LET N == Len(files')
              result == (currentMediaIndexRef + 1) % (N + 1)
          IN  IF result = N
              THEN mode' = "GREEN_DOTS" /\ currentMediaIndexRef' = -1
              ELSE /\ currentMediaIndexRef' = result
                   /\ mode' = RevealMode(files'[result + 1])]_vars

C11_Witness ==
    /\ mounted
    /\ Len(files) = 3
    /\ currentMediaIndexRef = 2
    /\ mode = "VIDEO_REVEAL"

\* C12: a cycle request whose media scan returns the empty list, or fails,
\* leaves the mode at Green Dots and the cursor unset, whatever the mode
\* and the cursor were.
C12_EmptyScanGreenDots ==
    [][(scans' < scans /\ mounted /\ files' = <<>>) =>
          (mode' = "GREEN_DOTS" /\ currentMediaIndexRef' = -1)]_vars

C12_Witness ==
    /\ mounted
    /\ files = <<>>
    /\ cycleLog = <<-1>>
    /\ imageLoaded
    /\ mediaDir # <<>>
    /\ mode = "GREEN_DOTS"
    /\ currentMediaIndexRef = -1

\* C13: over an unchanging list of N entries, the completed cycle requests
\* that follow Green Dots select entries 0, 1, ..., N-1 in list order, each
\* once, and the next one returns to Green Dots with the cursor unset.
CycleOrder(N) == [i \in 1..(N + 1) |-> IF i <= N THEN i - 1 ELSE -1]

C13_FullCycleInOrder ==
    LET N == Len(mediaDir)
    IN  /\ Len(cycleLog) <= N + 1
        /\ \A i \in 1..Len(cycleLog) : cycleLog[i] = CycleOrder(N)[i]
        /\ cycleLog # <<>> => currentMediaIndexRef = cycleLog[Len(cycleLog)]
        /\ currentMediaIndexRef >= 0 =>
              selectedName = mediaDir[currentMediaIndexRef + 1].name
        /\ mounted => (mode = "GREEN_DOTS" <=> currentMediaIndexRef = -1)

C13_Witness ==
    /\ mounted
    /\ Len(mediaDir) = 3
    /\ cycleLog = <<0, 1, 2, -1>>
    /\ mode = "GREEN_DOTS"

VideoUsedOnlyOnceReady ==
    [][(frameCountRef' # frameCountRef /\ selectionLoading
          /\ mode = "VIDEO_REVEAL") => tickBg' = None]_vars

\* C15: in IMAGE_REVEAL or VIDEO_REVEAL, on a tick with no background buffer
\* (source not ready), an active dot is filled with the flat colour, the
\* fixed hue of Green Dots mode.
C15_FallbackIsFlatColor ==
    (/\ paintCall.pc = "painted"
     /\ paintCall.mode \in {"IMAGE_REVEAL", "VIDEO_REVEAL"}
     /\ paintCall.bgData = None
     /\ paintCall.out.active)
        => paintCall.out.fill = <<"hsl(120,90%,70%)">>

\* what holds of the fallback: the fill is white
FallbackIsWhite ==
    (/\ paintCall.pc = "painted"
     /\ paintCall.mode \in {"IMAGE_REVEAL", "VIDEO_REVEAL"}
     /\ paintCall.bgData = None
     /\ paintCall.out.active)
        => paintCall.out.fill = <<"#fff">>

OutOfBoundsDotPainted ==
    /\ paintCall.pc = "painted"
    /\ paintCall.published # None
    /\ paintCall.dot.baseX >= paintCall.canvas.width
    /\ paintCall.published[1].data[1] = 1
    /\ ~paintCall.out.active

\* C17: a grid rebuild for canvas (W, H) and a preset of spacing s yields
\* exactly ceil(W/s) * ceil(H/s) dots, one at each anchor (i*s, j*s) with
\* 0 <= i < ceil(W/s) and 0 <= j < ceil(H/s), whatever the grid was before;
\* when W or H is zero the grid is empty (a tick paints no dot).
CeilOf(a, b) == CHOOSE n \in 0..a : n * b >= a /\ (n > 0 => (n - 1) * b < a)

Anchors(dots) == {<<dots[k].baseX, dots[k].baseY>> : k \in DOMAIN dots}

C17_GridCountAndAnchors ==
    LET s == DOT_MODES[renderedDotMode + 1].spacing
        cols == CeilOf(canvas.width, s)
        rows == CeilOf(canvas.height, s)
    IN  /\ Len(dotsRef) = cols * rows
        /\ Cardinality(Anchors(dotsRef)) = Len(dotsRef)
        /\ Anchors(dotsRef) =
              {<<i * s, j * s>> : i \in 0..(cols - 1), j \in 0..(rows - 1)}
        /\ (canvas.width = 0 \/ canvas.height = 0) => dotsRef = <<>>

C17_Witness ==
    /\ canvas = [width |-> WinW - 7, height |-> WinH]
    /\ renderedDotMode = 0
    /\ Len(dotsRef) > 6

\* C18: once the effects of the resizes and density-cycle requests have run,
\* the grid is the grid a full rebuild for the current canvas size and the
\* current preset produces, and all its dots have the spacing and the base
\* size of that one preset of the three.
Rebuilt(dots) == [k \in DOMAIN dots |-> [dots[k] EXCEPT !.active = FALSE]]

C18_GridIsFullRebuild ==
    renderedDotMode = dotModeIndex =>
        /\ Rebuilt(dotsRef) = initializeDots(canvas, DOT_MODES[dotModeIndex + 1])
        /\ dotModeIndex \in 0..2
        /\ \A k \in DOMAIN dotsRef :
              /\ dotsRef[k].baseSize = DOT_MODES[dotModeIndex + 1].baseSize
              /\ dotsRef[k].baseX % DOT_MODES[dotModeIndex + 1].spacing = 0
              /\ dotsRef[k].baseY % DOT_MODES[dotModeIndex + 1].spacing = 0

C18_Witness ==
    /\ renderedDotMode = dotModeIndex
    /\ dotModeIndex = 0
    /\ canvas = [width |-> WinW - 7, height |-> WinH - 13]
    /\ Len(dotsRef) > 0

Symmetric(source) ==
    \A r \in 1..source.height, c \in 1..source.width :
       source.pixels[r][c] = source.pixels[r][source.width + 1 - c]

C20_MirrorIsReflection ==
    composeCall.pc = "composed" =>
        LET sw == composeCall.source.width
            cw == composeCall.canvas.width
            ch == composeCall.canvas.height
            plain == composeCall.plain
            mirrored == composeCall.mirrored
        IN  /\ mirrored.rect = plain.rect
            /\ \A px \in 0..(cw - 1) :
                  mirrored.columns[px] = {sw - 1 - c : c \in plain.columns[px]}
            /\ \A px \in 0..(cw - 1), py \in 0..(ch - 1) :
                  mirrored.data[py * cw + px + 1]
                     = plain.data[py * cw + (cw - 1 - px) + 1]
            /\ Symmetric(composeCall.source) => mirrored.data = plain.data

C20_Witness ==
    /\ composeCall.pc = "composed"
    /\ composeCall.source.width = 3
    /\ composeCall.canvas.width = 3
    /\ Symmetric(composeCall.source)
    /\ composeCall.source.pixels[1][1] # composeCall.source.pixels[1][2]
    /\ composeCall.mirrored.data = composeCall.plain.data
    /\ composeCall.plain.columns[0] = {0}

\* C21: the first render tick after the component is created uses an
\* elapsed time of zero for the fade, whatever time passed since the
\* creation, and every later tick uses the time since the previous tick.
C21_FirstTickElapsedZero ==
    [][frameCountRef' # frameCountRef =>
          IF tickDraw = None
          THEN tickDraw'[1].delta = 0
          ELSE tickDraw'[1].delta = now - lastFrameTimeRef]_vars

\* the later ticks alone do use the time since the previous tick
LaterTickElapsed ==
    [][(frameCountRef' # frameCountRef /\ tickDraw # None) =>
          tickDraw'[1].delta = now - lastFrameTimeRef]_vars

\* C22: the fade opacity min(1, 1 - e^(-elapsed/300)) is 0 at elapsed time
\* 0, grows with the elapsed time (strictly, until it reaches 1), never
\* exceeds 1 and approaches 1: its distance to 1 is at most 3 / (3 + steps)
\* after `steps` steps of 100 ms.
C22_FadeOpacityShape ==
    fadeCall.pc = "done" =>
       /\ fadeCall.delta = 0 => fadeCall.out = 0
       /\ fadeCall.out >= 0
       /\ fadeCall.out <= Unit
       /\ fadeCall.out <= fadeCall.longer
       /\ fadeCall.out < Unit => fadeCall.out < fadeCall.longer
       /\ fadeCall.out * (fadeCall.delta + 3) >= Unit * fadeCall.delta

C22_Witness ==
    /\ fadeCall.pc = "done"
    /\ fadeCall.delta > 0
    /\ fadeCall.out > 0
    /\ fadeCall.out < fadeCall.longer
    /\ fadeCall.longer < Unit

\* the opacity does reach 1 within the longest elapsed time
FadeSaturates ==
    /\ fadeCall.pc = "done"
    /\ fadeCall.delta = MaxDelta
    /\ fadeCall.out = Unit

\* C23: a result whose mask has zero width or zero height is a no-op: the
\* history, the published mask and the published dimensions stay as they
\* were.
C23_EmptyMaskIsNoOp ==
    (/\ feedCall.pc = "feeding"
     /\ feedCall.last # None
     /\ feedCall.last[1].mask
     /\ (feedCall.last[1].width = 0 \/ feedCall.last[1].height = 0))
    => feedCall.refs = feedCall.before

C23_Witness ==
    /\ feedCall.pc = "feeding"
    /\ feedCall.last # None
    /\ feedCall.last[1].mask
    /\ feedCall.last[1].height = 0
    /\ Len(feedCall.before.history) = 2
    /\ feedCall.before.smoothed # None
    /\ feedCall.refs.segmentation # None
    /\ feedCall.refs.segmentation[1].width = SegW

\* the cell has a raw value in every frame pushed since the history was
\* last emptied, and that value is v in all of them but at most one
AllButOne(i, v) ==
    LET agree == IF v = 1 THEN feedCall.seen.ones[i] ELSE feedCall.seen.zeros[i]
        dissent == IF v = 1 THEN feedCall.seen.zeros[i]
                   ELSE feedCall.seen.ones[i]
    IN  /\ agree + dissent = feedCall.seen.frames
        /\ dissent <= 1

\* an entry of the history now held dissents from v at the cell
DissentInWindow(i, v) ==
    \E k \in 1..Len(feedCall.refs.history) :
       /\ i <= Len(feedCall.refs.history[k])
       /\ feedCall.refs.history[k][i] # v

\* C29: once the history holds 4 entries, a cell whose raw value is v in
\* every delivered frame except one isolated frame votes v after every
\* update, the updates whose window holds the dissenting frame included.
C29_FlickerRejected ==
    (/\ feedCall.pc = "feeding"
     /\ feedCall.voted # None
     /\ Len(feedCall.refs.history) = HistoryCap)
    => \A i \in 1..Len(feedCall.voted[1]), v \in Bit :
          AllButOne(i, v) => feedCall.voted[1][i] = v

C29_Witness ==
    /\ feedCall.pc = "feeding"
    /\ feedCall.voted # None
    /\ Len(feedCall.refs.history) = HistoryCap
    /\ feedCall.seen.frames > HistoryCap
    /\ \E i \in 1..Len(feedCall.voted[1]) :
          /\ AllButOne(i, 1)
          /\ DissentInWindow(i, 1)
          /\ feedCall.voted[1][i] = 1

\* the same for a cell that is off but for one frame
FlickerOnRejected ==
    /\ feedCall.pc = "feeding"
    /\ feedCall.voted # None
    /\ Len(feedCall.refs.history) = HistoryCap
    /\ feedCall.seen.frames > HistoryCap
    /\ \E i \in 1..Len(feedCall.voted[1]) :
          /\ AllButOne(i, 0)
          /\ DissentInWindow(i, 0)
          /\ feedCall.voted[1][i] = 0

\* the tick's canvas calls paint every dot as inactive
AllPaintedInactive(draw) ==
    \A n \in 2..Len(draw.ops) :
       /\ draw.ops[n].fillStyle = Black
       /\ draw.ops[n].radius = dotsRef[n - 1].baseSize * 5

\* C24: a result without a mask clears the published snapshot, and every
\* render tick from then until the next publication marks every dot
\* inactive.
C24_NoMaskAllInactive ==
    [][/\ afterNoMask' # "no" =>
             /\ smoothedMaskRef' = None
             /\ lastSegmentationRef' = None
       /\ (frameCountRef' # frameCountRef /\ afterNoMask # "no") =>
             /\ \A k \in DOMAIN dotsRef : ~dotsRef'[k].active
             /\ tickRead' = None
             /\ AllPaintedInactive(tickDraw'[1])]_vars

\* a tick ran after a full history was cleared by a result without a mask
C24_Witness ==
    /\ mounted
    /\ afterNoMask = "ticked"
    /\ shifted
    /\ tickDraw # None
    /\ Len(tickDraw[1].ops) = Len(dotsRef) + 1
    /\ Len(dotsRef) > 1
    /\ \A k \in DOMAIN dotsRef : ~dotsRef[k].active

\* what a tick reads while the published snapshot is as it stands
PublishedRead ==
    IF lastSegmentationRef = None \/ smoothedMaskRef = None
    THEN None
    ELSE Some([width |-> lastSegmentationRef[1].width,
               height |-> lastSegmentationRef[1].height,
               data |-> smoothedMaskRef[1]])

\* C25: when a submission to the oracle rejects, the history and the
\* published mask are left untouched, and the render ticks that follow keep
\* using the mask published last.
C25_RejectLeavesMask ==
    [][/\ (afterReject' = "rejected" /\ inFlight' < inFlight) =>
             UNCHANGED <<maskHistoryRef, smoothedMaskRef, lastSegmentationRef>>
       /\ (frameCountRef' # frameCountRef /\ afterReject # "no") =>
             tickRead' = PublishedRead]_vars

\* a tick ran on a published mask after a send was rejected
C25_Witness ==
    /\ afterReject = "ticked"
    /\ inFlight = 0
    /\ ~isProcessingFrameRef
    /\ Len(maskHistoryRef) = HistoryCap
    /\ tickRead # None
    /\ tickRead = PublishedRead

\* C26: when the background source reports zero width or zero height the
\* composition does not fail, and an active dot in a reveal mode gets the
\* flat-colour fallback, not pixel values read from the buffer.
C26_EmptySourceFallsBack ==
    (/\ composeCall.pc = "filled"
     /\ (composeCall.source.width = 0 \/ composeCall.source.height = 0))
    => \A k \in DOMAIN composeCall.fills :
          composeCall.fills[k] \subseteq {GreenHue, White}

\* what holds: nothing is drawn, the buffer is transparent black and the
\* active dot is filled with what is read from it
EmptySourceReadsBuffer ==
    (/\ composeCall.pc = "filled"
     /\ (composeCall.source.width = 0 \/ composeCall.source.height = 0))
    => \A k \in DOMAIN composeCall.fills :
          /\ composeCall.plain.data[k] = {}
          /\ composeCall.fills[k] = {<<"rgb", 0, 0, 0>>}

\* C27: a frame is submitted only by a render tick that leaves the tick
\* counter even, and only while active; the tick after it starts from an
\* even counter and does not submit, so no two consecutive ticks both
\* submit, and nothing is submitted while inactive.
C27_SubmitEveryOtherTick ==
    [][/\ inFlight' > inFlight =>
             /\ frameCountRef' # frameCountRef
             /\ frameCountRef' % FrameModulus = 0
             /\ isActive
       /\ (frameCountRef' # frameCountRef /\ frameCountRef % FrameModulus = 0)
             => inFlight' = inFlight]_vars

\* a tick of the active component has just submitted a frame
C27_Witness ==
    /\ mounted
    /\ isActive
    /\ tickDraw # None
    /\ frameCountRef = 0
    /\ isProcessingFrameRef
    /\ inFlight = 1

Residue(draw) == Unit - draw.ops[1].globalAlpha

\* C30: in every render tick the fade step comes before any dot is painted,
\* and with the trail disabled it fills the whole canvas with the solid
\* background tone at full opacity, so nothing painted by an earlier tick
\* remains.
C30_FadeFirstAndClears ==
    [][frameCountRef' # frameCountRef =>
          LET draw == tickDraw'[1]
          IN  /\ draw.ops[1].op = "fillRect"
              /\ draw.ops[1].fillStyle = Black
              /\ draw.ops[1].x = 0 /\ draw.ops[1].y = 0
              /\ draw.ops[1].w = canvas.width /\ draw.ops[1].h = canvas.height
              /\ \A n \in 2..Len(draw.ops) : draw.ops[n].op = "arc"
              /\ Len(draw.ops) = Len(dotsRef) + 1
              /\ ~ghostlyEnabled => Residue(draw) = 0]_vars

\* a tick with the trail disabled and no time elapsed: with the trail on
\* its fade would have had opacity 0
C30_Witness ==
    /\ tickDraw # None
    /\ ~ghostlyEnabled
    /\ tickDraw[1].delta = 0
    /\ tickDraw[1].ops[1].globalAlpha = Unit
    /\ Len(tickDraw[1].ops) > 1

\* the arc painted for dot k in the canvas calls of a tick (baseSize is in
\* tenths of a pixel, radii are in hundredths)
ArcOf(draw, k) == draw.ops[k + 1]

\* C31: in every render tick every dot of the grid is painted exactly once,
\* at its own anchor: at 1.5 times its base radius when the tick found it
\* active, and at 0.5 times its base radius in the fixed background tone
\* when it found it inactive; no dot is skipped.
C31_EveryDotPaintedOnce ==
    [][frameCountRef' # frameCountRef =>
          LET draw == tickDraw'[1]
              arcs == {n \in 1..Len(draw.ops) : draw.ops[n].op = "arc"}
          IN  /\ Cardinality(arcs) = Len(dotsRef)
              /\ Len(dotsRef') = Len(dotsRef)
              /\ \A k \in DOMAIN dotsRef :
                    /\ ArcOf(draw, k).op = "arc"
                    /\ ArcOf(draw, k).x = dotsRef[k].baseX
                    /\ ArcOf(draw, k).y = dotsRef[k].baseY
                    /\ dotsRef'[k].active =>
                          ArcOf(draw, k).radius * 2 = dotsRef[k].baseSize * 10 * 3
                    /\ ~dotsRef'[k].active =>
                          /\ ArcOf(draw, k).radius * 2 = dotsRef[k].baseSize * 10
                          /\ ArcOf(draw, k).fillStyle = Black]_vars

\* a tick painted a grid of which some dots are active and some are not
C31_Witness ==
    /\ tickDraw # None
    /\ Len(tickDraw[1].ops) = Len(dotsRef) + 1
    /\ \E k \in DOMAIN dotsRef :
          /\ dotsRef[k].active
          /\ ArcOf(tickDraw[1], k).radius = dotsRef[k].baseSize * 15
    /\ \E k \in DOMAIN dotsRef :
          /\ ~dotsRef[k].active
          /\ ArcOf(tickDraw[1], k).radius = dotsRef[k].baseSize * 5

\* the pixel of the tick's background buffer at (floor(x), floor(y))
PixelUnder(src, x, y, cnv) == TickData(src, cnv)[1][y * cnv.width + x + 1]

\* the dots the tick found active are filled with `fill(k)`
ActiveFilled(draw, fill(_)) ==
    \A k \in DOMAIN dotsRef' :
       dotsRef'[k].active => ArcOf(draw, k).fillStyle = fill(k)

\* C32: the background source and the fill rule of a tick follow the mode.
\* In Green Dots no background is composited and active dots get the fixed
\* hue, also when an image or a video is loaded and ready; in IMAGE_REVEAL
\* only the loaded image and in VIDEO_REVEAL only the ready video is
\* composited, and an active dot takes the colour of the background pixel
\* at (floor(baseX), floor(baseY)).
C32_SourceAndFillFollowMode ==
    [][frameCountRef' # frameCountRef =>
          LET draw == tickDraw'[1]
              src == tickBg'
              Hue(k) == GreenHue
              Under(k) == <<"rgb">> \o PixelUnder(src, dotsRef[k].baseX,
                                                  dotsRef[k].baseY, canvas)
          IN  /\ mode = "GREEN_DOTS" =>
                    /\ src = None
                    /\ ActiveFilled(draw, Hue)
              /\ mode = "IMAGE_REVEAL" =>
                    /\ src # None <=> (imageRef # None /\ imageLoaded)
                    /\ src # None => src = imageRef /\ src[1] \in ImageNames
              /\ mode = "VIDEO_REVEAL" =>
                    /\ src # None <=> bgVideoReady
                    /\ src # None =>
                          src = Some(bgVideo.src) /\ src[1] \notin ImageNames
              /\ src # None => ActiveFilled(draw, Under)]_vars

\* a tick in Green Dots painted an active dot in the fixed hue while an
\* image was loaded or the video was ready
C32_Witness ==
    /\ tickDraw # None
    /\ mode = "GREEN_DOTS"
    /\ tickBg = None
    /\ (imageRef # None /\ imageLoaded) \/ bgVideoReady
    /\ \E k \in DOMAIN dotsRef :
          /\ dotsRef[k].active
          /\ ArcOf(tickDraw[1], k).fillStyle = GreenHue

\* a tick in a reveal mode painted an active dot in the colour of the pixel
\* under it
RevealSampled ==
    /\ tickDraw # None
    /\ mode \in {"IMAGE_REVEAL", "VIDEO_REVEAL"}
    /\ tickBg # None
    /\ \E k \in DOMAIN dotsRef :
          /\ dotsRef[k].active
          /\ ArcOf(tickDraw[1], k).fillStyle[1] = "rgb"

\* C33: after any sequence of cycle requests, overlapping ones whose scans
\* complete in any order and return lists of different lengths included, the
\* mode of the mounted component is Green Dots exactly when the selection
\* cursor is unset (-1), and a set cursor is a valid index into the list
\* used by the request that set it.
C33_GreenIffCursorUnset ==
    /\ currentMediaIndexRef \in -1..(Len(files) - 1)
    /\ mounted => (mode = "GREEN_DOTS" <=> currentMediaIndexRef = -1)
    /\ (mounted /\ currentMediaIndexRef >= 0) =>
          mode = RevealMode(files[currentMediaIndexRef + 1])

\* of two overlapping requests the first has completed with a listing that
\* is not the one on disk any more, and has set the cursor past the end of
\* the listing the pending one will get
C33_Witness ==
    /\ mounted
    /\ scans = MaxPendingScans - 1
    /\ Len(files) > Len(mediaDir)
    /\ mediaDir # <<>>
    /\ currentMediaIndexRef >= Len(mediaDir)
    /\ mode # "GREEN_DOTS"

\* C34: the in-flight guard is released when a send settles, whether it
\* resolves or rejects; the guard is set only while a send is pending, so
\* if every send eventually settles the guard never stays set forever (and
\* a later eligible tick can submit again).
C34_GuardAlwaysReleased ==
    /\ [](isProcessingFrameRef <=> inFlight > 0)
    /\ [][inFlight' < inFlight => ~isProcessingFrameRef']_vars
    /\ isProcessingFrameRef ~> ~isProcessingFrameRef

\* a send failed, the guard was released, and the eligible tick after that
\* has submitted again
C34_Witness ==
    /\ mounted
    /\ isActive
    /\ afterReject = "ticked"
    /\ frameCountRef = 0
    /\ tickDraw # None
    /\ isProcessingFrameRef
    /\ inFlight > 0

\* C35: at most one render tick is scheduled at any time: whatever state
\* changes restart the animation effect, the pending tick of the previous
\* run is cancelled before the new chain starts; after unmount no tick is
\* scheduled; and a tick is scheduled only while the model is ready.
C35_OneTickScheduled ==
    /\ Cardinality(rafQueue) <= 1
    /\ ~mounted => rafQueue = {}
    /\ rafQueue # {} => (isModelReady /\ rafQueue = {animationRef})

\* the effect was restarted by a mirror toggle while another restart, by a
\* video that became ready, is still due, and one tick is scheduled
C35_Witness ==
    /\ mounted
    /\ ~isMirrored
    /\ hasCleanup
    /\ effectDeps # CurrentDeps
    /\ mode = "VIDEO_REVEAL"
    /\ bgVideoReady
    /\ animationRef \in rafQueue
    /\ tickDraw # None

\* C36: after the oracle effect's teardown has cleared the mask history and
\* the published snapshot, a result that arrives late (from a send that was
\* in flight at teardown) does not repopulate them: the mask state stays
\* cleared.
C36_LateResultIgnored ==
    ~mounted =>
       /\ maskHistoryRef = <<>>
       /\ smoothedMaskRef = None
       /\ lastSegmentationRef = None

\* what holds of the first component: its listener returns at once after
\* teardown, whatever arrives
LateResultIgnoredA == [][cancelled => UNCHANGED maskVars]_vars

\* C37: whenever the oracle instance is registered (the model is ready), its
\* selfieMode option equals the mirror setting of the view, after any
\* sequence of mirror toggles the controls allow (they are offered only
\* while the experience is active, which needs the model to be ready).
C37_SelfieModeIsMirror ==
    /\ segmentationTaskRef # "null" => selfieMode = Some(isMirrored)
    /\ isModelReady => segmentationTaskRef # "null"
    /\ isActive => isModelReady

\* the mirror was switched off while active, the instance follows, and a
\* tick has run since the effect restarted
C37_Witness ==
    /\ isModelReady
    /\ isActive
    /\ ~isMirrored
    /\ selfieMode = Some(FALSE)
    /\ effectDeps = CurrentDeps
    /\ rafQueue # {}

\* the mask sizes an anchor is mapped to: the small ones and the model's
\* own 256 x 144
MaskWidths == 1..SegW \cup {256}
MaskHeights == 1..SegH \cup {144}

\* number of bytes of imgd.data of the scratch canvas, sized to the canvas
BufferBytes(cnv) == cnv.width * cnv.height * 4

\* C38: every anchor of the grid lies inside the canvas the grid was built
\* for (0 <= baseX < W, 0 <= baseY < H); so for every mask size the mask
\* index the anchor maps to is in bounds, and the bytes of the background
\* pixel under it, from (baseY * W + baseX) * 4 on, lie inside the
\* composited buffer: the out-of-bounds branch is never taken.
C38_AnchorsInsideCanvas ==
    \A k \in DOMAIN dotsRef :
       LET dot == dotsRef[k]
           pidx == (dot.baseY * canvas.width + dot.baseX) * 4
       IN  /\ 0 <= dot.baseX /\ dot.baseX < canvas.width
           /\ 0 <= dot.baseY /\ dot.baseY < canvas.height
           /\ \A ws \in MaskWidths, hs \in MaskHeights :
                 LET mx == MaskCoord(dot.baseX, ws, canvas.width)
                     my == MaskCoord(dot.baseY, hs, canvas.height)
                 IN  /\ mx >= 0 /\ my >= 0 /\ mx < ws /\ my < hs
                     /\ my * ws + mx < ws * hs
           /\ pidx >= 0
           /\ pidx + 2 < BufferBytes(canvas)
           /\ pidx \div 4 + 1 \in DOMAIN TickData(Some("a.png"), canvas)[1]

\* a tick has painted the grid rebuilt for a narrower window, whose last
\* column of anchors lies one pixel inside the right edge
C38_Witness ==
    /\ canvas = [width |-> WinW - 7, height |-> WinH]
    /\ canvas = window
    /\ tickDraw # None
    /\ Len(tickDraw[1].ops) = Len(dotsRef) + 1
    /\ \E k \in DOMAIN dotsRef : dotsRef[k].baseX = canvas.width - 1
    /\ \E k \in DOMAIN dotsRef : dotsRef[k].baseY = canvas.height - 1

\* the 3x3 neighbourhood of cell p lies entirely on the w x h grid
Interior(p, w, h) ==
    LET x == (p - 1) % w
        y == (p - 1) \div w
    IN  x >= 1 /\ y >= 1 /\ x <= w - 2 /\ y <= h - 2

\* C39: closing never removes an interior silhouette cell: a cell whose 3x3
\* neighbourhood lies entirely on the grid and that is on in m is on in
\* morphologicalClose(m); only on cells of the outermost rows and columns
\* can be lost.
C39_InteriorCellsKept ==
    closeCall.pc \in {"closed", "reclosed"} =>
       \A p \in 1..Len(closeCall.src) :
          (closeCall.src[p] = 1 /\ closeCall.once[p] = 0)
             => ~Interior(p, closeCall.w, closeCall.h)

\* a lone interior cell of a 4 x 3 mask was kept, and a border cell of the
\* same mask was lost
C39_Witness ==
    /\ closeCall.pc = "closed"
    /\ closeCall.w = 4
    /\ closeCall.h = 3
    /\ \E p \in 1..Len(closeCall.src) :
          /\ Interior(p, closeCall.w, closeCall.h)
          /\ closeCall.src[p] = 1
          /\ closeCall.once[p] = 1
          /\ closeCall.src[p - 1] = 0
          /\ closeCall.src[p + 1] = 0
    /\ \E q \in 1..Len(closeCall.src) :
          /\ closeCall.src[q] = 1
          /\ closeCall.once[q] = 0

====
